---- MODULE Spec2Model ----
(***************************************************************************)
(* A model of go-tk/versionedkv's in-memory storage:                       *)
(*   memorystorage/internal/value.go   (Value: the per-key slot, watcher)  *)
(*   memorystorage/memorystorage.go    (memoryStorage: the coordinator)    *)
(*                                                                         *)
(* Goroutines are the processes of Procs.  Every access to shared memory   *)
(* (an atomic, a sync.Map operation, a critical section of Value.mu, a     *)
(* channel close, a select) is one step; a Value method body is one step   *)
(* because it runs under Value.mu and touches at most one other shared     *)
(* object (the version counter or the map) while it holds the lock.        *)
(* Value and watcher objects live in small heaps; an object that nothing   *)
(* references any more is reset and its address reused, as a collected     *)
(* heap would do.                                                          *)
(***************************************************************************)
EXTENDS Integers, Sequences, FiniteSets, TLC

\* ------------------------------------------------------------------ bounds
\* Number of public calls invoked in one behaviour.
MaxCalls == 3

Procs == {"p1", "p2"}
\* The keys of the map.  The calls of Spec all go to one key, where they
\* contend; the calls of TwoKeySpec are spread over both.
Keys == {"a", "b"}
OneKey == {"a"}

\* A value string is a sequence of characters.  The code never inspects a
\* value, so each writing call passes a payload of its own: the one-character
\* string made of the call's serial number.
EmptyString == << >>
Payload(n) == << n >>

\* Every call allocates at most one version per attempt, and InitPresent
\* starts with one version allocated; the cap is never reached within MaxCalls
\* calls (see NextVersionEnabled).
MaxVersion == 2 * MaxCalls + 1
\* Heap sizes: a process references at most one Value, the map one per key.
SlotIds == 1 .. (Cardinality(Procs) + Cardinality(Keys))
WatcherIds == 1 .. (2 * Cardinality(Procs))

NoSlot == 0
NoWatcher == 0

Ops == {"GetValue", "WaitForValue", "CreateValue", "UpdateValue",
        "CreateOrUpdateValue", "DeleteValue", "Close"}

VARIABLES
    values,     \* memoryStorage.values: key -> address of a Value, or NoSlot
    version,    \* memoryStorage.version: the counter behind nextVersion
    isClosed1,  \* memoryStorage.isClosed1
    closure,    \* memoryStorage.closure: TRUE once the channel is closed
    slots,      \* heap of internal.Value objects
    wobj,       \* heap of internal.watcher objects
    proc,       \* per goroutine: the call in progress and its locals
    calls,      \* number of calls invoked so far
    log         \* history: the mutations applied, in the order they took effect

vars == <<values, version, isClosed1, closure, slots, wobj, proc, calls, log>>

\* ------------------------------------------------------------ object shapes
\* The zero internal.Value (&internal.Value{}).
ZeroValue == [v |-> EmptyString, version |-> 0, watchers |-> {}, isRemoved |-> FALSE]

\* new(watcher).Init(): an open event channel and zero event args.
ZeroWatcher == [fired |-> FALSE, eventArgs |-> [Value |-> EmptyString, Version |-> 0]]

\* A call's result: the returned value, version or ok flag, the error, and
\* for doWaitForValue the return statement taken (`via`).
NoRes == [val |-> EmptyString, ver |-> 0, ok |-> FALSE, err |-> "none", via |-> "none"]

IdleProc == [pc |-> "idle", op |-> "none", key |-> "none", val |-> EmptyString,
             old |-> 0, value |-> NoSlot, watcher |-> NoWatcher,
             version |-> 0, pending |-> {}, fireArgs |-> [Value |-> EmptyString, Version |-> 0],
             res |-> NoRes, start |-> 0,
             todo |-> {}, details |-> {}]

\* Results as the public methods return them (version 0 is the nil Version).
ResClosed == [NoRes EXCEPT !.err = "ErrStorageClosed"]
ResCtx == [NoRes EXCEPT !.err = "ctx", !.via = "ctx"]
ResValue(val, ver) == [NoRes EXCEPT !.val = val, !.ver = ver, !.err = "nil"]
ResVersion(ver) == [NoRes EXCEPT !.ver = ver, !.err = "nil"]
ResOK(ok) == [NoRes EXCEPT !.ok = ok, !.err = "nil"]
\* Inspect's StorageDetails{IsClosed: ...}; its Values are the goroutine's
\* `details`.
ResDetails(closed) == [NoRes EXCEPT !.ok = closed, !.err = "nil"]
Via(res, how) == [res EXCEPT !.via = how]

\* ------------------------------------------------------------------- heaps
SlotReferenced(s, vals, pr) ==
    \/ \E k \in Keys : vals[k] = s
    \/ \E p \in Procs : pr[p].value = s

WatcherReferenced(w, vals, sl, pr) ==
    \/ \E s \in SlotIds : SlotReferenced(s, vals, pr) /\ w \in sl[s].watchers
    \/ \E p \in Procs : pr[p].watcher = w \/ w \in pr[p].pending

\* Unreferenced objects are reset, so that their address can be handed out
\* again by the next allocation.
CollectSlots(sl, vals, pr) ==
    [s \in SlotIds |-> IF SlotReferenced(s, vals, pr) THEN sl[s] ELSE ZeroValue]

CollectWatchers(wo, vals, sl, pr) ==
    [w \in WatcherIds |-> IF WatcherReferenced(w, vals, sl, pr) THEN wo[w] ELSE ZeroWatcher]

FreeSlots == {s \in SlotIds : ~SlotReferenced(s, values, proc)}
FreeWatchers == {w \in WatcherIds : ~WatcherReferenced(w, values, slots, proc)}

Min(S) == CHOOSE x \in S : \A y \in S : x <= y

\* One step's new shared state, with the garbage collected.
Commit(vals, sl, wo, pr) ==
    /\ values' = vals
    /\ proc' = pr
    /\ slots' = CollectSlots(sl, vals, pr)
    /\ wobj' = CollectWatchers(wo, vals, CollectSlots(sl, vals, pr), pr)

\* ------------------------------------------------------------------- Init
Init ==
    /\ values = [k \in Keys |-> NoSlot]
    /\ version = 0
    /\ isClosed1 = 0
    /\ closure = FALSE
    /\ slots = [s \in SlotIds |-> ZeroValue]
    /\ wobj = [w \in WatcherIds |-> ZeroWatcher]
    /\ proc = [p \in Procs |-> IdleProc]
    /\ calls = 0
    /\ log = << >>

\* ------------------------------------------------------- memoryStorage bits
isClosed == isClosed1 # 0

\* The pc at which each operation's attempt continues after the closed check.
FirstPc(op) ==
    CASE op = "GetValue" -> "load"
      [] op = "WaitForValue" -> "load"
      [] op = "CreateValue" -> "nextVersion"
      [] op = "UpdateValue" -> "load"
      [] op = "CreateOrUpdateValue" -> "nextVersion"
      [] op = "DeleteValue" -> "load"

\* An attempt that starts without `if ms.isClosed() { return ...ErrStorageClosed }`.
ClosedCheck_Skipped(r) ==
    [r EXCEPT !.pc = FirstPc(r.op), !.value = NoSlot,
              !.watcher = NoWatcher, !.version = 0]

\* `if ms.isClosed() { return ..., ErrStorageClosed }` at the top of every
\* attempt (doGetValue, doWaitForValue, doCreateValue, ...).
ClosedCheck(r) ==
    IF isClosed
    THEN [r EXCEPT !.pc = "ret", !.res = ResClosed, !.value = NoSlot,
                   !.watcher = NoWatcher, !.version = 0]
    ELSE [r EXCEPT !.pc = FirstPc(r.op), !.value = NoSlot,
                   !.watcher = NoWatcher, !.version = 0]

\* The public method handing ErrValueRemoved to its caller instead of
\* `continue`.
Retry_ReturnsError(r) ==
    [r EXCEPT !.pc = "ret", !.res = [NoRes EXCEPT !.err = "ErrValueRemoved"],
              !.value = NoSlot, !.watcher = NoWatcher, !.version = 0]

\* `continue` going back to the Value it already holds instead of the map.
Retry_SameSlot(r) == r

\* `if err == internal.ErrValueRemoved { continue }`: the attempt is dropped
\* and the loop of the public method starts the next one.
Retry(r) == [r EXCEPT !.pc = "check", !.value = NoSlot, !.watcher = NoWatcher,
                      !.version = 0]

\* The attempt returned a result other than ErrValueRemoved.
Done(r, res) == [r EXCEPT !.pc = "ret", !.res = res, !.value = NoSlot,
                          !.watcher = NoWatcher, !.version = 0,
                          !.pending = {}]

\* ------------------------------------------------ internal.Value (value.go)
\* Each operator is the body of a method run under Value.mu: it maps the
\* Value before the call to the Value after it and the method's results.
\* `removed` tells that the method invoked remover() (Value.remove).

ErrNil == "nil"
ErrValueRemoved == "ErrValueRemoved"

\* func (v *Value) set(vv string, version Version)
set(val, vv, ver) == [val EXCEPT !.v = vv, !.version = ver]

\* `if version == 0 { panic("set value to zero version") }` in Value.set
setPanics(ver) == ver = 0

\* func NewValue(vv string, version Version) *Value
NewValue(vv, ver) == set(ZeroValue, vv, ver)

\* func (v *Value) remove(remover ValueRemover): remover(); v.isRemoved = true
remove(val) == [val EXCEPT !.isRemoved = TRUE]

\* func (v *Value) Get() (string, Version, error)
Get(val) ==
    IF val.isRemoved
    THEN [v |-> EmptyString, version |-> 0, err |-> ErrValueRemoved]
    ELSE [v |-> val.v, version |-> val.version, err |-> ErrNil]

\* AddWatcher without `if v.isRemoved { return Watcher{}, ErrValueRemoved }`.
AddWatcher_IgnoresRemoved(val, w) ==
    [value |-> [val EXCEPT !.watchers = @ \cup {w}], err |-> ErrNil]

\* func (v *Value) AddWatcher() (Watcher, error); w is the new watcher
AddWatcher(val, w) ==
    IF val.isRemoved
    THEN [value |-> val, err |-> ErrValueRemoved]
    ELSE [value |-> [val EXCEPT !.watchers = @ \cup {w}], err |-> ErrNil]

\* RemoveWatcher removing the Value when its last watcher leaves, whether or
\* not it holds a value.
RemoveWatcher_RemovesPresent(val, w) ==
    IF val.isRemoved
    THEN [value |-> val, removed |-> FALSE, err |-> ErrValueRemoved]
    ELSE IF w \notin val.watchers
    THEN [value |-> val, removed |-> FALSE, err |-> ErrNil]
    ELSE IF Cardinality(val.watchers \ {w}) >= 1
    THEN [value |-> [val EXCEPT !.watchers = @ \ {w}], removed |-> FALSE, err |-> ErrNil]
    ELSE [value |-> remove([val EXCEPT !.watchers = {}]), removed |-> TRUE, err |-> ErrNil]

\* RemoveWatcher without `if v.version == 0 { v.remove(remover) }`.
RemoveWatcher_NeverRemoves(val, w) ==
    IF val.isRemoved
    THEN [value |-> val, removed |-> FALSE, err |-> ErrValueRemoved]
    ELSE [value |-> [val EXCEPT !.watchers = @ \ {w}], removed |-> FALSE, err |-> ErrNil]

\* RemoveWatcher without `delete(v.watchers, watcher)`.
RemoveWatcher_KeepsWatcher(val, w) ==
    IF val.isRemoved
    THEN [value |-> val, removed |-> FALSE, err |-> ErrValueRemoved]
    ELSE [value |-> val, removed |-> FALSE, err |-> ErrNil]

\* RemoveWatcher without `if _, ok := v.watchers[watcher]; !ok { return nil }`:
\* a watcher that is not attached is deleted all the same.
RemoveWatcher_SkipsMembership(val, w) ==
    IF val.isRemoved
    THEN [value |-> val, removed |-> FALSE, err |-> ErrValueRemoved]
    ELSE LET ws == val.watchers \ {w} IN
         IF Cardinality(ws) >= 1
         THEN [value |-> [val EXCEPT !.watchers = ws], removed |-> FALSE, err |-> ErrNil]
         ELSE IF val.version = 0
         THEN [value |-> remove([val EXCEPT !.watchers = {}]), removed |-> TRUE, err |-> ErrNil]
         ELSE [value |-> [val EXCEPT !.watchers = {}], removed |-> FALSE, err |-> ErrNil]

\* func (v *Value) RemoveWatcher(wrappedWatcher Watcher, remover ValueRemover) error
RemoveWatcher(val, w) ==
    IF val.isRemoved
    THEN [value |-> val, removed |-> FALSE, err |-> ErrValueRemoved]
    ELSE IF w \notin val.watchers
    THEN [value |-> val, removed |-> FALSE, err |-> ErrNil]
    ELSE LET ws == val.watchers \ {w} IN
         IF Cardinality(ws) >= 1
         THEN [value |-> [val EXCEPT !.watchers = ws], removed |-> FALSE, err |-> ErrNil]
         ELSE IF val.version = 0
         THEN [value |-> remove([val EXCEPT !.watchers = {}]), removed |-> TRUE, err |-> ErrNil]
         ELSE [value |-> [val EXCEPT !.watchers = {}], removed |-> FALSE, err |-> ErrNil]

\* CheckAndSet detaching the watchers before it knows the callback's verdict.
CheckAndSet_DetachesOnFailure(val, cb) ==
    IF val.isRemoved
    THEN [value |-> val, ok |-> FALSE, fired |-> {}, err |-> ErrValueRemoved]
    ELSE IF ~cb.ok
    THEN [value |-> [val EXCEPT !.watchers = {}], ok |-> FALSE, fired |-> {},
          err |-> ErrNil]
    ELSE [value |-> [set(val, cb.vv, cb.version) EXCEPT !.watchers = {}],
          ok |-> TRUE, fired |-> val.watchers, err |-> ErrNil]

\* CheckAndSet firing the watchers without `v.watchers = nil`.
CheckAndSet_KeepsWatchers(val, cb) ==
    IF val.isRemoved
    THEN [value |-> val, ok |-> FALSE, fired |-> {}, err |-> ErrValueRemoved]
    ELSE IF ~cb.ok
    THEN [value |-> val, ok |-> FALSE, fired |-> {}, err |-> ErrNil]
    ELSE [value |-> set(val, cb.vv, cb.version),
          ok |-> TRUE, fired |-> val.watchers, err |-> ErrNil]

\* CheckAndSet dropping the watchers it detached instead of firing them.
CheckAndSet_FiresNothing(val, cb) ==
    IF val.isRemoved
    THEN [value |-> val, ok |-> FALSE, fired |-> {}, err |-> ErrValueRemoved]
    ELSE IF ~cb.ok
    THEN [value |-> val, ok |-> FALSE, fired |-> {}, err |-> ErrNil]
    ELSE [value |-> [set(val, cb.vv, cb.version) EXCEPT !.watchers = {}],
          ok |-> TRUE, fired |-> {}, err |-> ErrNil]

\* func (v *Value) CheckAndSet(callback) (bool, error); cb is what the
\* callback returned for v.version.  `fired` is the watcher set the method
\* detached under the lock and fires after unlocking.
CheckAndSet(val, cb) ==
    IF val.isRemoved
    THEN [value |-> val, ok |-> FALSE, fired |-> {}, err |-> ErrValueRemoved]
    ELSE IF ~cb.ok
    THEN [value |-> val, ok |-> FALSE, fired |-> {}, err |-> ErrNil]
    ELSE [value |-> [set(val, cb.vv, cb.version) EXCEPT !.watchers = {}],
          ok |-> TRUE, fired |-> val.watchers, err |-> ErrNil]

\* Clear without the comparison of the given version to the current one.
Clear_IgnoresVersion(val, ver) ==
    IF val.isRemoved
    THEN [value |-> val, ok |-> FALSE, removed |-> FALSE, err |-> ErrValueRemoved]
    ELSE IF val.version = 0
    THEN [value |-> val, ok |-> FALSE, removed |-> FALSE, err |-> ErrNil]
    ELSE IF val.watchers = {}
    THEN [value |-> remove([val EXCEPT !.v = EmptyString, !.version = 0]),
          ok |-> TRUE, removed |-> TRUE, err |-> ErrNil]
    ELSE [value |-> [val EXCEPT !.v = EmptyString, !.version = 0],
          ok |-> TRUE, removed |-> FALSE, err |-> ErrNil]

\* Clear dropping the attached watchers and removing the value from the map.
Clear_DropsWatchers(val, ver) ==
    IF val.isRemoved
    THEN [value |-> val, ok |-> FALSE, removed |-> FALSE, err |-> ErrValueRemoved]
    ELSE IF val.version = 0
    THEN [value |-> val, ok |-> FALSE, removed |-> FALSE, err |-> ErrNil]
    ELSE IF ver # 0 /\ val.version # ver
    THEN [value |-> val, ok |-> FALSE, removed |-> FALSE, err |-> ErrNil]
    ELSE [value |-> remove([val EXCEPT !.v = EmptyString, !.version = 0,
                                       !.watchers = {}]),
          ok |-> TRUE, removed |-> TRUE, err |-> ErrNil]

\* Clear without `if v.watchers == nil`: the Value is removed with its
\* watchers attached.
Clear_RemovesWatched(val, ver) ==
    IF val.isRemoved
    THEN [value |-> val, ok |-> FALSE, removed |-> FALSE, err |-> ErrValueRemoved]
    ELSE IF val.version = 0
    THEN [value |-> val, ok |-> FALSE, removed |-> FALSE, err |-> ErrNil]
    ELSE IF ver # 0 /\ val.version # ver
    THEN [value |-> val, ok |-> FALSE, removed |-> FALSE, err |-> ErrNil]
    ELSE [value |-> remove([val EXCEPT !.v = EmptyString, !.version = 0]),
          ok |-> TRUE, removed |-> TRUE, err |-> ErrNil]

\* Clear resetting the version without the value (`v.v = ""` left out).
Clear_KeepsValue(val, ver) ==
    IF val.isRemoved
    THEN [value |-> val, ok |-> FALSE, removed |-> FALSE, err |-> ErrValueRemoved]
    ELSE IF val.version = 0
    THEN [value |-> val, ok |-> FALSE, removed |-> FALSE, err |-> ErrNil]
    ELSE IF ver # 0 /\ val.version # ver
    THEN [value |-> val, ok |-> FALSE, removed |-> FALSE, err |-> ErrNil]
    ELSE LET cleared == [val EXCEPT !.version = 0] IN
         IF val.watchers = {}
         THEN [value |-> remove(cleared), ok |-> TRUE, removed |-> TRUE, err |-> ErrNil]
         ELSE [value |-> cleared, ok |-> TRUE, removed |-> FALSE, err |-> ErrNil]

\* func (v *Value) Clear(version Version, remover ValueRemover) (bool, error)
Clear(val, ver) ==
    IF val.isRemoved
    THEN [value |-> val, ok |-> FALSE, removed |-> FALSE, err |-> ErrValueRemoved]
    ELSE IF val.version = 0
    THEN [value |-> val, ok |-> FALSE, removed |-> FALSE, err |-> ErrNil]
    ELSE IF ver # 0 /\ val.version # ver
    THEN [value |-> val, ok |-> FALSE, removed |-> FALSE, err |-> ErrNil]
    ELSE LET cleared == [val EXCEPT !.v = EmptyString, !.version = 0] IN
         IF val.watchers = {}
         THEN [value |-> remove(cleared), ok |-> TRUE, removed |-> TRUE, err |-> ErrNil]
         ELSE [value |-> cleared, ok |-> TRUE, removed |-> FALSE, err |-> ErrNil]

\* FireEvent closing the channel without storing the event args.
FireEvent_DropsArgs(wo, eventArgs) == [wo EXCEPT !.fired = TRUE]

\* func (w *watcher) FireEvent(eventArgs EventArgs)
FireEvent(wo, eventArgs) == [wo EXCEPT !.fired = TRUE, !.eventArgs = eventArgs]

\* ------------------------------------------- the CheckAndSet callbacks
\* cur is v.version, r the caller's locals, next the version nextVersion()
\* would return.  `alloc` tells that the callback called nextVersion().

\* The callback of doCreateValue without the check that the value is absent.
CreateCallback_Overwrites(cur, r, next) ==
    [vv |-> r.val, version |-> r.version, ok |-> TRUE, alloc |-> FALSE]

\* the callback of doCreateValue
CreateCallback(cur, r, next) ==
    IF cur # 0
    THEN [vv |-> EmptyString, version |-> 0, ok |-> FALSE, alloc |-> FALSE]
    ELSE [vv |-> r.val, version |-> r.version, ok |-> TRUE, alloc |-> FALSE]

\* The callback of doUpdateValue without the old-version comparison.
UpdateCallback_IgnoresOld(cur, r, next) ==
    IF cur = 0
    THEN [vv |-> EmptyString, version |-> 0, ok |-> FALSE, alloc |-> FALSE]
    ELSE [vv |-> r.val, version |-> next, ok |-> TRUE, alloc |-> TRUE]

\* The callback of doUpdateValue without the check that the value exists.
UpdateCallback_WritesAbsent(cur, r, next) ==
    IF r.old # 0 /\ cur # r.old
    THEN [vv |-> EmptyString, version |-> 0, ok |-> FALSE, alloc |-> FALSE]
    ELSE [vv |-> r.val, version |-> next, ok |-> TRUE, alloc |-> TRUE]

\* The callback of doUpdateValue writing the new value under the version the
\* value already has.
UpdateCallback_KeepsVersion(cur, r, next) ==
    IF cur = 0
    THEN [vv |-> EmptyString, version |-> 0, ok |-> FALSE, alloc |-> FALSE]
    ELSE IF r.old # 0 /\ cur # r.old
    THEN [vv |-> EmptyString, version |-> 0, ok |-> FALSE, alloc |-> FALSE]
    ELSE [vv |-> r.val, version |-> cur, ok |-> TRUE, alloc |-> FALSE]

\* the callback of doUpdateValue
UpdateCallback(cur, r, next) ==
    IF cur = 0
    THEN [vv |-> EmptyString, version |-> 0, ok |-> FALSE, alloc |-> FALSE]
    ELSE IF r.old # 0 /\ cur # r.old
    THEN [vv |-> EmptyString, version |-> 0, ok |-> FALSE, alloc |-> FALSE]
    ELSE [vv |-> r.val, version |-> next, ok |-> TRUE, alloc |-> TRUE]

\* The callback of doCreateOrUpdateValue writing the pre-allocated version
\* on the update path too.
CreateOrUpdateCallback_Preallocated(cur, r, next) ==
    IF cur # 0 /\ r.old # 0 /\ cur # r.old
    THEN [vv |-> EmptyString, version |-> 0, ok |-> FALSE, alloc |-> FALSE]
    ELSE [vv |-> r.val, version |-> r.version, ok |-> TRUE, alloc |-> FALSE]

\* The callback of doCreateOrUpdateValue without the old-version comparison.
CreateOrUpdateCallback_IgnoresOld(cur, r, next) ==
    IF cur = 0
    THEN [vv |-> r.val, version |-> r.version, ok |-> TRUE, alloc |-> FALSE]
    ELSE [vv |-> r.val, version |-> next, ok |-> TRUE, alloc |-> TRUE]

\* The update branch of the callback returning the version it was given in
\* place of ms.nextVersion().
CreateOrUpdateCallback_KeepsVersion(cur, r, next) ==
    IF cur = 0
    THEN [vv |-> r.val, version |-> r.version, ok |-> TRUE, alloc |-> FALSE]
    ELSE IF r.old # 0 /\ cur # r.old
    THEN [vv |-> EmptyString, version |-> 0, ok |-> FALSE, alloc |-> FALSE]
    ELSE [vv |-> r.val, version |-> cur, ok |-> TRUE, alloc |-> FALSE]

\* the callback of doCreateOrUpdateValue
CreateOrUpdateCallback(cur, r, next) ==
    IF cur = 0
    THEN [vv |-> r.val, version |-> r.version, ok |-> TRUE, alloc |-> FALSE]
    ELSE IF r.old # 0 /\ cur # r.old
    THEN [vv |-> EmptyString, version |-> 0, ok |-> FALSE, alloc |-> FALSE]
    ELSE [vv |-> r.val, version |-> next, ok |-> TRUE, alloc |-> TRUE]

Callback(cur, r, next) ==
    CASE r.op = "CreateValue" -> CreateCallback(cur, r, next)
      [] r.op = "UpdateValue" -> UpdateCallback(cur, r, next)
      [] r.op = "CreateOrUpdateValue" -> CreateOrUpdateCallback(cur, r, next)

\* A mutation that took effect, as the history records it.
Mutation(r, ver) == [op |-> r.op, key |-> r.key, val |-> r.val, old |-> r.old, ver |-> ver]

\* --------------------------------------------------------------- actions
Set(p, r) == [proc EXCEPT ![p] = r]

\* A goroutine invokes one of the public methods `ops` (Close is CloseSwap)
\* on one of `keys`; the first closed check of its retry loop is taken at the
\* invocation.  A goroutine at "ret" holds the result of its last call until
\* it invokes the next one.  The old-version handed in is nil or a version
\* this storage has generated.
CallOf(p, ops, keys) ==
    /\ proc[p].pc \in {"idle", "ret"}
    /\ calls < MaxCalls
    /\ \E op \in ops, k \in keys :
       \E val \in {IF op \in {"CreateValue", "UpdateValue", "CreateOrUpdateValue"}
                   THEN Payload(calls + 1) ELSE EmptyString} :
       \E old \in (IF op \in {"GetValue", "CreateValue"} THEN {0} ELSE 0 .. version) :
          Commit(values, slots, wobj,
                 Set(p, ClosedCheck([IdleProc EXCEPT !.op = op, !.key = k,
                                                     !.val = val, !.old = old,
                                                     !.start = Len(log)])))
    /\ calls' = calls + 1
    /\ UNCHANGED <<version, isClosed1, closure, log>>

Call(p) == CallOf(p, Ops \ {"Close"}, OneKey)

\* The closed check of a retried attempt.
Check(p) ==
    /\ proc[p].pc = "check"
    /\ Commit(values, slots, wobj, Set(p, ClosedCheck(proc[p])))
    /\ UNCHANGED <<version, isClosed1, closure, calls, log>>

\* doGetValue with LoadOrStore(key, &internal.Value{}) in place of Load.
GetLoad_Installs(p) ==
    LET r == proc[p]
        s == IF values[r.key] = NoSlot THEN Min(FreeSlots) ELSE values[r.key] IN
    /\ r.pc = "load" /\ r.op = "GetValue"
    /\ Commit([values EXCEPT ![r.key] = s],
              IF values[r.key] = NoSlot THEN [slots EXCEPT ![s] = ZeroValue] ELSE slots,
              wobj,
              Set(p, [r EXCEPT !.pc = "get", !.value = s]))
    /\ UNCHANGED <<version, isClosed1, closure, calls, log>>

\* doGetValue: ms.values.Load(key)
GetLoad(p) ==
    LET r == proc[p] IN
    /\ r.pc = "load" /\ r.op = "GetValue"
    /\ Commit(values, slots, wobj,
              Set(p, IF values[r.key] = NoSlot
                     THEN Done(r, ResValue(EmptyString, 0))
                     ELSE [r EXCEPT !.pc = "get", !.value = values[r.key]]))
    /\ UNCHANGED <<version, isClosed1, closure, calls, log>>

\* doGetValue: value.Get()
GetGet(p) ==
    LET r == proc[p]
        g == Get(slots[r.value]) IN
    /\ r.pc = "get" /\ r.op = "GetValue"
    /\ Commit(values, slots, wobj,
              Set(p, IF g.err = ErrValueRemoved THEN Retry(r)
                     ELSE Done(r, ResValue(g.v, g.version))))
    /\ UNCHANGED <<version, isClosed1, closure, calls, log>>

\* doWaitForValue: ms.values.Load(key)
WaitLoad(p) ==
    LET r == proc[p] IN
    /\ r.pc = "load" /\ r.op = "WaitForValue"
    /\ Commit(values, slots, wobj,
              Set(p, IF values[r.key] = NoSlot
                     THEN [r EXCEPT !.pc = "loadOrStore"]
                     ELSE [r EXCEPT !.pc = "addWatcher", !.value = values[r.key]]))
    /\ UNCHANGED <<version, isClosed1, closure, calls, log>>

\* doWaitForValue: ms.values.LoadOrStore(key, &internal.Value{})
WaitLoadOrStore(p) ==
    LET r == proc[p]
        s == IF values[r.key] = NoSlot THEN Min(FreeSlots) ELSE values[r.key] IN
    /\ r.pc = "loadOrStore" /\ r.op = "WaitForValue"
    /\ Commit([values EXCEPT ![r.key] = s],
              IF values[r.key] = NoSlot THEN [slots EXCEPT ![s] = ZeroValue] ELSE slots,
              wobj,
              Set(p, [r EXCEPT !.pc = "addWatcher", !.value = s]))
    /\ UNCHANGED <<version, isClosed1, closure, calls, log>>

\* doWaitForValue: value.AddWatcher()
WaitAddWatcher(p) ==
    LET r == proc[p]
        w == Min(FreeWatchers)
        a == AddWatcher(slots[r.value], w) IN
    /\ r.pc = "addWatcher"
    /\ IF a.err = ErrValueRemoved
       THEN Commit(values, slots, wobj, Set(p, Retry(r)))
       ELSE Commit(values, [slots EXCEPT ![r.value] = a.value],
                   [wobj EXCEPT ![w] = ZeroWatcher],
                   Set(p, [r EXCEPT !.pc = "get", !.watcher = w]))
    /\ UNCHANGED <<version, isClosed1, closure, calls, log>>

\* The decision taken only when an old-version was passed.
ReturnsRightAway_OnlyWithOld(ver, old) == ver # 0 /\ old # 0 /\ ver # old

\* The test without the comparison to oldVersion: `if version != 0`.
ReturnsRightAway_IgnoresOld(ver, old) == ver # 0

\* `if version != 0 && (oldVersion == 0 || version != oldVersion)` in
\* doWaitForValue: the value is returned right away
ReturnsRightAway(ver, old) == ver # 0 /\ (old = 0 \/ ver # old)

\* doWaitForValue: value.Get() and the decision whether to block; a return
\* from here on runs the deferred RemoveWatcher first.
WaitGet(p) ==
    LET r == proc[p]
        g == Get(slots[r.value]) IN
    /\ r.pc = "get" /\ r.op = "WaitForValue"
    /\ Commit(values, slots, wobj,
              Set(p, IF g.err = ErrValueRemoved THEN Retry(r)
                     ELSE IF ReturnsRightAway(g.version, r.old)
                     THEN [r EXCEPT !.pc = "removeWatcher",
                                    !.res = Via(ResValue(g.v, g.version), "now")]
                     ELSE [r EXCEPT !.pc = "select"]))
    /\ UNCHANGED <<version, isClosed1, closure, calls, log>>

\* doWaitForValue: select, case <-watcher.Event()
WaitEvent(p) ==
    LET r == proc[p] IN
    /\ r.pc = "select"
    /\ wobj[r.watcher].fired
    /\ Commit(values, slots, wobj,
              Set(p, Done(r, Via(ResValue(wobj[r.watcher].eventArgs.Value,
                                          wobj[r.watcher].eventArgs.Version), "event"))))
    /\ UNCHANGED <<version, isClosed1, closure, calls, log>>

\* doWaitForValue: select, case <-ms.closure (the deferred function finds
\* watcher reset and does not call RemoveWatcher)
WaitClosure(p) ==
    LET r == proc[p] IN
    /\ r.pc = "select"
    /\ closure
    /\ Commit(values, slots, wobj, Set(p, Done(r, Via(ResClosed, "closure"))))
    /\ UNCHANGED <<version, isClosed1, closure, calls, log>>

\* case <-ctx.Done() resetting watcher as the other two cases do, so that the
\* deferred function skips RemoveWatcher.
WaitCtxDone_SkipsRemove(p) ==
    LET r == proc[p] IN
    /\ r.pc = "select"
    /\ Commit(values, slots, wobj,
              Set(p, [r EXCEPT !.pc = "ret", !.res = ResCtx, !.value = NoSlot,
                               !.watcher = NoWatcher, !.version = 0, !.pending = {}]))
    /\ UNCHANGED <<version, isClosed1, closure, calls, log>>

\* doWaitForValue: select, case <-ctx.Done(); the caller's context may be
\* cancelled or time out at any moment
WaitCtxDone(p) ==
    LET r == proc[p] IN
    /\ r.pc = "select"
    /\ Commit(values, slots, wobj,
              Set(p, [r EXCEPT !.pc = "removeWatcher", !.res = ResCtx]))
    /\ UNCHANGED <<version, isClosed1, closure, calls, log>>

\* doWaitForValue without the deferred function: the call returns with its
\* watcher attached.
WaitRemoveWatcher_Skipped(p) ==
    LET r == proc[p] IN
    /\ r.pc = "removeWatcher"
    /\ Commit(values, slots, wobj,
              Set(p, [r EXCEPT !.pc = "ret", !.value = NoSlot, !.watcher = NoWatcher,
                               !.version = 0, !.pending = {}]))
    /\ UNCHANGED <<version, isClosed1, closure, calls, log>>

\* doWaitForValue: the deferred
\* value.RemoveWatcher(watcher, func() { ms.values.Delete(key) })
WaitRemoveWatcher(p) ==
    LET r == proc[p]
        rw == RemoveWatcher(slots[r.value], r.watcher) IN
    /\ r.pc = "removeWatcher"
    /\ Commit(IF rw.removed THEN [values EXCEPT ![r.key] = NoSlot] ELSE values,
              [slots EXCEPT ![r.value] = rw.value], wobj,
              Set(p, Done(r, r.res)))
    /\ UNCHANGED <<version, isClosed1, closure, calls, log>>

\* nextVersion reading the counter without adding to it.
NextVersion_NoIncrement(p) ==
    LET r == proc[p] IN
    /\ r.pc = "nextVersion"
    /\ version < MaxVersion
    /\ version' = version
    /\ Commit(values, slots, wobj,
              Set(p, [r EXCEPT !.pc = "loadOrStore", !.version = version + 1]))
    /\ UNCHANGED <<isClosed1, closure, calls, log>>

\* `ms.nextVersion()` called without keeping what it returns: the write goes
\* on with the zero Version.
NextVersion_DropsResult(p) ==
    LET r == proc[p] IN
    /\ r.pc = "nextVersion"
    /\ version < MaxVersion
    /\ version' = version + 1
    /\ Commit(values, slots, wobj,
              Set(p, [r EXCEPT !.pc = "loadOrStore", !.version = 0]))
    /\ UNCHANGED <<isClosed1, closure, calls, log>>

\* func (ms *memoryStorage) nextVersion(), as doCreateValue and
\* doCreateOrUpdateValue call it before they touch the map
NextVersion(p) ==
    LET r == proc[p] IN
    /\ r.pc = "nextVersion"
    /\ version < MaxVersion
    /\ version' = version + 1
    /\ Commit(values, slots, wobj,
              Set(p, [r EXCEPT !.pc = "loadOrStore", !.version = version + 1]))
    /\ UNCHANGED <<isClosed1, closure, calls, log>>

\* doCreateValue and doCreateOrUpdateValue with ms.values.Store in place of
\* LoadOrStore: the new Value replaces the entry the map holds.
CreateLoadOrStore_Stores(p) ==
    LET r == proc[p]
        s == Min(FreeSlots) IN
    /\ r.pc = "loadOrStore" /\ r.op \in {"CreateValue", "CreateOrUpdateValue"}
    /\ Commit([values EXCEPT ![r.key] = s],
              [slots EXCEPT ![s] = NewValue(r.val, r.version)], wobj,
              Set(p, IF setPanics(r.version) THEN [r EXCEPT !.pc = "panic"]
                     ELSE Done(r, ResVersion(r.version))))
    /\ log' = Append(log, Mutation(r, r.version))
    /\ UNCHANGED <<version, isClosed1, closure, calls>>

\* doCreateValue, doCreateOrUpdateValue:
\* ms.values.LoadOrStore(key, internal.NewValue(val, version))
CreateLoadOrStore(p) ==
    LET r == proc[p]
        s == Min(FreeSlots) IN
    /\ r.pc = "loadOrStore" /\ r.op \in {"CreateValue", "CreateOrUpdateValue"}
    /\ IF values[r.key] = NoSlot
       THEN /\ Commit([values EXCEPT ![r.key] = s],
                      [slots EXCEPT ![s] = NewValue(r.val, r.version)], wobj,
                      Set(p, IF setPanics(r.version) THEN [r EXCEPT !.pc = "panic"]
                             ELSE Done(r, ResVersion(r.version))))
            /\ log' = Append(log, Mutation(r, r.version))
       ELSE /\ Commit(values, slots, wobj,
                      Set(p, [r EXCEPT !.pc = "checkAndSet", !.value = values[r.key]]))
            /\ log' = log
    /\ UNCHANGED <<version, isClosed1, closure, calls>>

\* doUpdateValue: ms.values.Load(key)
UpdateLoad(p) ==
    LET r == proc[p] IN
    /\ r.pc = "load" /\ r.op = "UpdateValue"
    /\ Commit(values, slots, wobj,
              Set(p, IF values[r.key] = NoSlot
                     THEN Done(r, ResVersion(0))
                     ELSE [r EXCEPT !.pc = "checkAndSet", !.value = values[r.key]]))
    /\ UNCHANGED <<version, isClosed1, closure, calls, log>>

\* doCreateValue, doUpdateValue, doCreateOrUpdateValue: value.CheckAndSet
\* up to mu.Unlock(); the watchers it detached are fired by FireStep.
DoCheckAndSet(p) ==
    LET r == proc[p]
        cb == Callback(slots[r.value].version, r, version + 1)
        c == CheckAndSet(slots[r.value], cb)
        alloc == c.err = ErrNil /\ cb.alloc IN
    /\ r.pc = "checkAndSet"
    /\ alloc => version < MaxVersion
    /\ version' = IF alloc THEN version + 1 ELSE version
    /\ Commit(values, [slots EXCEPT ![r.value] = c.value], wobj,
              Set(p, IF c.err = ErrValueRemoved THEN Retry(r)
                     ELSE IF ~c.ok THEN Done(r, ResVersion(0))
                     ELSE IF setPanics(cb.version) THEN [r EXCEPT !.pc = "panic"]
                     ELSE IF c.fired = {} THEN Done(r, ResVersion(cb.version))
                     ELSE [r EXCEPT !.pc = "fire", !.res = ResVersion(cb.version),
                                    !.value = NoSlot, !.version = 0,
                                    !.pending = c.fired,
                                    !.fireArgs = [Value |-> cb.vv, Version |-> cb.version]]))
    /\ log' = IF c.ok THEN Append(log, Mutation(r, cb.version)) ELSE log
    /\ UNCHANGED <<isClosed1, closure, calls>>

\* Value.CheckAndSet after mu.Unlock(): one iteration of
\* `for watcher := range watchers { watcher.FireEvent(eventArgs) }`;
\* closing an event channel that is already closed panics.
FireStep(p) ==
    LET r == proc[p] IN
    /\ r.pc = "fire"
    /\ \E w \in r.pending :
          Commit(values, slots, [wobj EXCEPT ![w] = FireEvent(wobj[w], r.fireArgs)],
                 Set(p, IF wobj[w].fired THEN [r EXCEPT !.pc = "panic"]
                        ELSE IF r.pending = {w} THEN Done(r, r.res)
                        ELSE [r EXCEPT !.pending = @ \ {w}]))
    /\ UNCHANGED <<version, isClosed1, closure, calls, log>>

\* doDeleteValue: ms.values.Load(key)
DeleteLoad(p) ==
    LET r == proc[p] IN
    /\ r.pc = "load" /\ r.op = "DeleteValue"
    /\ Commit(values, slots, wobj,
              Set(p, IF values[r.key] = NoSlot
                     THEN Done(r, ResOK(FALSE))
                     ELSE [r EXCEPT !.pc = "clear", !.value = values[r.key]]))
    /\ UNCHANGED <<version, isClosed1, closure, calls, log>>

\* doDeleteValue with a remover that leaves the map entry in place.
DeleteClear_KeepsEntry(p) ==
    LET r == proc[p]
        c == Clear(slots[r.value], r.old) IN
    /\ r.pc = "clear"
    /\ Commit(values, [slots EXCEPT ![r.value] = c.value], wobj,
              Set(p, IF c.err = ErrValueRemoved THEN Retry(r) ELSE Done(r, ResOK(c.ok))))
    /\ log' = IF c.ok THEN Append(log, Mutation(r, 0)) ELSE log
    /\ UNCHANGED <<version, isClosed1, closure, calls>>

\* doDeleteValue: value.Clear(version, func() { ms.values.Delete(key) })
DeleteClear(p) ==
    LET r == proc[p]
        c == Clear(slots[r.value], r.old) IN
    /\ r.pc = "clear"
    /\ Commit(IF c.removed THEN [values EXCEPT ![r.key] = NoSlot] ELSE values,
              [slots EXCEPT ![r.value] = c.value], wobj,
              Set(p, IF c.err = ErrValueRemoved THEN Retry(r) ELSE Done(r, ResOK(c.ok))))
    /\ log' = IF c.ok THEN Append(log, Mutation(r, 0)) ELSE log
    /\ UNCHANGED <<version, isClosed1, closure, calls>>

\* Close storing 1 into isClosed1 without looking at the value it replaces.
CloseSwap_IgnoresOld(p) ==
    /\ proc[p].pc \in {"idle", "ret"}
    /\ calls < MaxCalls
    /\ calls' = calls + 1
    /\ isClosed1' = 1
    /\ Commit(values, slots, wobj,
              Set(p, [IdleProc EXCEPT !.op = "Close", !.pc = "closeChan"]))
    /\ UNCHANGED <<version, closure, log>>

\* func (ms *memoryStorage) Close(): atomic.SwapInt32(&ms.isClosed1, 1)
CloseSwap(p) ==
    /\ proc[p].pc \in {"idle", "ret"}
    /\ calls < MaxCalls
    /\ calls' = calls + 1
    /\ isClosed1' = 1
    /\ Commit(values, slots, wobj,
              Set(p, IF isClosed1 # 0
                     THEN Done([IdleProc EXCEPT !.op = "Close"], ResClosed)
                     ELSE [IdleProc EXCEPT !.op = "Close", !.pc = "closeChan"]))
    /\ UNCHANGED <<version, closure, log>>

\* Close returning nil without closing the channel.
CloseChan_NoBroadcast(p) ==
    /\ proc[p].pc = "closeChan"
    /\ closure' = closure
    /\ Commit(values, slots, wobj, Set(p, Done(proc[p], ResOK(TRUE))))
    /\ UNCHANGED <<version, isClosed1, calls, log>>

\* func (ms *memoryStorage) Close(): close(ms.closure)
CloseChan(p) ==
    /\ proc[p].pc = "closeChan"
    /\ closure' = TRUE
    /\ Commit(values, slots, wobj, Set(p, Done(proc[p], ResOK(TRUE))))
    /\ UNCHANGED <<version, isClosed1, calls, log>>

\* func (ms *memoryStorage) Inspect(): the invocation and
\* `if ms.isClosed() { return StorageDetails{IsClosed: true}, nil }`;
\* otherwise ms.values.Range is entered with every key still to visit.
InspectCall(p) ==
    /\ proc[p].pc \in {"idle", "ret"}
    /\ calls < MaxCalls
    /\ calls' = calls + 1
    /\ Commit(values, slots, wobj,
              Set(p, IF isClosed
                     THEN Done([IdleProc EXCEPT !.op = "Inspect", !.start = Len(log)],
                               ResDetails(TRUE))
                     ELSE [IdleProc EXCEPT !.op = "Inspect", !.pc = "range",
                                           !.start = Len(log), !.todo = Keys]))
    /\ UNCHANGED <<version, isClosed1, closure, log>>

\* Inspect: ms.values.Range reaches a key it has not visited; each key is
\* visited at most once, with the entry the map holds at that moment, and a
\* key without an entry is passed over.
InspectRange(p) ==
    LET r == proc[p] IN
    /\ r.pc = "range"
    /\ \E k \in r.todo :
          Commit(values, slots, wobj,
                 Set(p, IF values[k] = NoSlot
                        THEN [r EXCEPT !.todo = @ \ {k}]
                        ELSE [r EXCEPT !.todo = @ \ {k}, !.pc = "inspectGet",
                                       !.key = k, !.value = values[k]]))
    /\ UNCHANGED <<version, isClosed1, closure, calls, log>>

\* Inspect, in the function passed to Range:
\* `val, version, _ := value.Get()` and
\* `valueDetails[key] = ValueDetails{V: val, Version: version}`; the error of
\* Get is dropped.
InspectGet(p) ==
    LET r == proc[p]
        g == Get(slots[r.value]) IN
    /\ r.pc = "inspectGet"
    /\ Commit(values, slots, wobj,
              Set(p, [r EXCEPT !.pc = "range", !.value = NoSlot,
                               !.details = @ \cup {[key |-> r.key, V |-> g.v,
                                                     Version |-> g.version]}]))
    /\ UNCHANGED <<version, isClosed1, closure, calls, log>>

\* Inspect: Range has visited every key;
\* `return StorageDetails{Values: valueDetails}, nil`
InspectReturn(p) ==
    LET r == proc[p] IN
    /\ r.pc = "range"
    /\ r.todo = {}
    /\ Commit(values, slots, wobj, Set(p, Done(r, ResDetails(FALSE))))
    /\ UNCHANGED <<version, isClosed1, closure, calls, log>>

Next ==
    \E p \in Procs :
        \/ Call(p) \/ Check(p)
        \/ GetLoad(p) \/ GetGet(p)
        \/ WaitLoad(p) \/ WaitLoadOrStore(p) \/ WaitAddWatcher(p) \/ WaitGet(p)
        \/ WaitEvent(p) \/ WaitClosure(p) \/ WaitCtxDone(p) \/ WaitRemoveWatcher(p)
        \/ NextVersion(p) \/ CreateLoadOrStore(p)
        \/ UpdateLoad(p) \/ DoCheckAndSet(p) \/ FireStep(p)
        \/ DeleteLoad(p) \/ DeleteClear(p)
        \/ CloseSwap(p) \/ CloseChan(p)

Spec == Init /\ [][Next]_vars

\* The steps a goroutine takes by itself once its call is invoked.  The Go
\* scheduler runs every runnable goroutine, and a select proceeds once one of
\* its cases is ready; invoking a call and cancelling a context are up to the
\* caller and are not forced.
Internal(p) ==
    \/ Check(p)
    \/ GetLoad(p) \/ GetGet(p)
    \/ WaitLoad(p) \/ WaitLoadOrStore(p) \/ WaitAddWatcher(p) \/ WaitGet(p)
    \/ WaitEvent(p) \/ WaitClosure(p) \/ WaitRemoveWatcher(p)
    \/ NextVersion(p) \/ CreateLoadOrStore(p)
    \/ UpdateLoad(p) \/ DoCheckAndSet(p) \/ FireStep(p)
    \/ DeleteLoad(p) \/ DeleteClear(p)
    \/ CloseChan(p)

FairSpec == Init /\ [][Next]_vars /\ \A p \in Procs : WF_vars(Internal(p))

\* Waiters, the writes that wake them and Close, for the claims about closing.
NextClose ==
    \E p \in Procs :
        \/ CallOf(p, {"WaitForValue", "CreateValue"}, OneKey)
        \/ Check(p)
        \/ WaitLoad(p) \/ WaitLoadOrStore(p) \/ WaitAddWatcher(p) \/ WaitGet(p)
        \/ WaitEvent(p) \/ WaitClosure(p) \/ WaitCtxDone(p) \/ WaitRemoveWatcher(p)
        \/ NextVersion(p) \/ CreateLoadOrStore(p)
        \/ DoCheckAndSet(p) \/ FireStep(p)
        \/ CloseSwap(p) \/ CloseChan(p)

\* The steps of NextClose a goroutine takes by itself (see Internal).
InternalClose(p) ==
    \/ Check(p)
    \/ WaitLoad(p) \/ WaitLoadOrStore(p) \/ WaitAddWatcher(p) \/ WaitGet(p)
    \/ WaitEvent(p) \/ WaitClosure(p) \/ WaitRemoveWatcher(p)
    \/ NextVersion(p) \/ CreateLoadOrStore(p)
    \/ DoCheckAndSet(p) \/ FireStep(p)
    \/ CloseChan(p)

FairCloseSpec == Init /\ [][NextClose]_vars /\ \A p \in Procs : WF_vars(InternalClose(p))

\* Writers and deleters spread over the keys of the map: no waiter, no Close.
NextTwoKeys ==
    \E p \in Procs :
        \/ CallOf(p, {"CreateValue", "UpdateValue", "CreateOrUpdateValue",
                      "DeleteValue"}, Keys)
        \/ Check(p)
        \/ NextVersion(p) \/ CreateLoadOrStore(p)
        \/ UpdateLoad(p) \/ DoCheckAndSet(p)
        \/ DeleteLoad(p) \/ DeleteClear(p)

TwoKeySpec == Init /\ [][NextTwoKeys]_vars

\* Operations that never block, on one key where they contend: no waiter,
\* hence no watcher to fire, and no Close.  CreateValue is left to
\* CreateOrUpdateValue, which runs the same steps (nextVersion, LoadOrStore,
\* CheckAndSet).
NextNonBlocking ==
    \E p \in Procs :
        \/ CallOf(p, {"GetValue", "UpdateValue", "CreateOrUpdateValue",
                      "DeleteValue"}, OneKey)
        \/ Check(p)
        \/ GetLoad(p) \/ GetGet(p)
        \/ NextVersion(p) \/ CreateLoadOrStore(p)
        \/ UpdateLoad(p) \/ DoCheckAndSet(p)
        \/ DeleteLoad(p) \/ DeleteClear(p)

\* The steps of NextNonBlocking a goroutine takes by itself (see Internal).
InternalNonBlocking(p) ==
    \/ Check(p)
    \/ GetLoad(p) \/ GetGet(p)
    \/ NextVersion(p) \/ CreateLoadOrStore(p)
    \/ UpdateLoad(p) \/ DoCheckAndSet(p)
    \/ DeleteLoad(p) \/ DeleteClear(p)

FairNonBlockingSpec ==
    Init /\ [][NextNonBlocking]_vars /\ \A p \in Procs : WF_vars(InternalNonBlocking(p))

\* The storage after CreateValue("a", Payload(0)) has returned version 1 to a
\* goroutine that has gone since: the key is Present before the first of the
\* MaxCalls calls is invoked.
InitPresent ==
    /\ values = [k \in Keys |-> IF k = "a" THEN 1 ELSE NoSlot]
    /\ version = 1
    /\ isClosed1 = 0
    /\ closure = FALSE
    /\ slots = [s \in SlotIds |-> IF s = 1 THEN NewValue(Payload(0), 1) ELSE ZeroValue]
    /\ wobj = [w \in WatcherIds |-> ZeroWatcher]
    /\ proc = [p \in Procs |-> IdleProc]
    /\ calls = 0
    /\ log = << Mutation([IdleProc EXCEPT !.op = "CreateValue", !.key = "a",
                                          !.val = Payload(0)], 1) >>

\* The calls that delete, re-create and wait for the key; the storage stays
\* open.
NextRecreate ==
    \E p \in Procs :
        \/ CallOf(p, {"WaitForValue", "DeleteValue", "CreateOrUpdateValue"}, OneKey)
        \/ Check(p)
        \/ WaitLoad(p) \/ WaitLoadOrStore(p) \/ WaitAddWatcher(p) \/ WaitGet(p)
        \/ WaitEvent(p) \/ WaitCtxDone(p) \/ WaitRemoveWatcher(p)
        \/ NextVersion(p) \/ CreateLoadOrStore(p)
        \/ DoCheckAndSet(p) \/ FireStep(p)
        \/ DeleteLoad(p) \/ DeleteClear(p)

SpecPresent == InitPresent /\ [][NextRecreate]_vars

\* Inspect next to the calls that create, delete and wait for the key, and
\* Close.
NextInspect ==
    \E p \in Procs :
        \/ CallOf(p, {"WaitForValue", "CreateValue", "DeleteValue"}, OneKey)
        \/ Check(p)
        \/ WaitLoad(p) \/ WaitLoadOrStore(p) \/ WaitAddWatcher(p) \/ WaitGet(p)
        \/ WaitEvent(p) \/ WaitClosure(p) \/ WaitCtxDone(p) \/ WaitRemoveWatcher(p)
        \/ NextVersion(p) \/ CreateLoadOrStore(p)
        \/ DoCheckAndSet(p) \/ FireStep(p)
        \/ DeleteLoad(p) \/ DeleteClear(p)
        \/ CloseSwap(p) \/ CloseChan(p)
        \/ InspectCall(p) \/ InspectRange(p) \/ InspectGet(p) \/ InspectReturn(p)

InspectSpec == Init /\ [][NextInspect]_vars

\* ------------------------------------------------------------ type sanity
HeapNeverExhausted ==
    /\ (\E p \in Procs : proc[p].pc = "loadOrStore" /\ values[proc[p].key] = NoSlot)
          => FreeSlots # {}
    /\ (\E p \in Procs : proc[p].pc = "addWatcher") => FreeWatchers # {}

NextVersionEnabled ==
    (\E p \in Procs : proc[p].pc \in {"nextVersion", "checkAndSet"}) => version < MaxVersion

NoPanic == \A p \in Procs : proc[p].pc # "panic"

\* ------------------------------------------------- vocabulary of the claims
\* The logical content of key k: what GetValue reads from the current map entry.
AbsVer(k) == IF values[k] = NoSlot THEN 0 ELSE slots[values[k]].version
AbsVal(k) == IF values[k] = NoSlot THEN EmptyString ELSE slots[values[k]].v

Writes == {"CreateValue", "UpdateValue", "CreateOrUpdateValue"}
InCall(p) == proc[p].pc \notin {"idle", "ret"}
Blocked(p) == proc[p].pc = "select"
Returned(p) == proc[p].pc = "ret"

Max(S) == CHOOSE x \in S : \A y \in S : x >= y

\* k's version just before the i-th mutation of the history took effect.
VerBefore(i, k) ==
    LET js == {j \in 1 .. (i - 1) : log[j].key = k} IN
    IF js = {} THEN 0 ELSE log[Max(js)].ver

\* Since p's call started, a mutation of p's key took the key's version away
\* from the old-version p passed.
MutatedAway(p) ==
    \E i \in (proc[p].start + 1) .. Len(log) :
        /\ log[i].key = proc[p].key
        /\ VerBefore(i, proc[p].key) = proc[p].old
        /\ log[i].ver # proc[p].old

\* ------------------------------------------------------------------ C1
\* C1 (no missed wakeup): a WaitForValue(k, v) call in progress, once a
\* mutation of k has changed k's version away from v or the storage has been
\* closed, eventually returns, without its context being cancelled and
\* without any further call being invoked.
C1_NoMissedWakeup ==
    \A p \in Procs :
        (proc[p].op = "WaitForValue" /\ InCall(p) /\ (MutatedAway(p) \/ isClosed))
            ~> Returned(p)

\* ------------------------------------------------------------------ C2
\* C2: a successful DeleteValue wakes the WaitForValue calls blocked on the
\* key: when Clear has succeeded on a Value with attached watchers, each of
\* them is detached and fired with the zero event args.
C2_ClearFiresWatchers ==
    [][\A p \in Procs :
          (proc[p].pc = "clear" /\ proc'[p].pc = "ret" /\ proc'[p].res.ok)
              => \A q \in Procs :
                    (Blocked(q) /\ proc[q].watcher \in slots[proc[p].value].watchers)
                        => /\ wobj'[proc[q].watcher].fired
                           /\ wobj'[proc[q].watcher].eventArgs = [Value |-> EmptyString, Version |-> 0]
      ]_vars

\* ------------------------------------------------------------------ C3
\* C3: a WaitForValue woken by its watcher returns, with no error, a
\* (value, version) pair that one write to its key stored after the call
\* started, and every write returns to its caller the version it stored.
LoggedWrite(k, val, ver, from) ==
    \E i \in (from + 1) .. Len(log) :
        log[i].op \in Writes /\ log[i].key = k /\ log[i].val = val /\ log[i].ver = ver

C3_WokenPairIsTheWrite ==
    \A p \in Procs :
        Returned(p) =>
            /\ (proc[p].op = "WaitForValue" /\ proc[p].res.via = "event")
                  => /\ proc[p].res.err = "nil"
                     /\ LoggedWrite(proc[p].key, proc[p].res.val, proc[p].res.ver, proc[p].start)
            /\ (proc[p].op \in Writes /\ proc[p].res.ver # 0)
                  => /\ proc[p].res.err = "nil"
                     /\ LoggedWrite(proc[p].key, proc[p].val, proc[p].res.ver, 0)

C3_Witness ==
    \E p \in Procs :
        /\ Returned(p) /\ proc[p].op = "WaitForValue" /\ proc[p].res.via = "event"
        /\ proc[p].res.ver # 0
        /\ proc[p].old # 0

NoDeleteBetween(i, j) ==
    \A m \in (i + 1) .. (j - 1) :
        ~(log[m].key = log[i].key /\ log[m].op = "DeleteValue")

TakesEffect(p) ==
    /\ InCall(p) /\ proc[p].pc # "fire"
    /\ proc'[p].pc \in {"ret", "fire"}
    /\ proc'[p].res.err = "nil"

Abs(k) == <<AbsVal(k), AbsVer(k)>>
Absent == <<EmptyString, 0>>

UsedVersions == {log[i].ver : i \in 1 .. Len(log)} \cup {0}

\* The precondition of a conditional operation on a register at version cur.
Matches(old, cur) == old = 0 \/ old = cur

\* One operation of a sequential versioned register: r is the call, res its
\* result, before and after the register's (value, version).
RegisterStep(r, res, before, after) ==
    LET cur == before[2]
        wrote == /\ res.ver \notin UsedVersions
                 /\ after = <<r.val, res.ver>>
        failed == res.ver = 0 /\ after = before IN
    CASE r.op = "GetValue" ->
            res.val = before[1] /\ res.ver = cur /\ after = before
      [] r.op = "CreateValue" ->
            IF cur = 0 THEN wrote ELSE failed
      [] r.op = "UpdateValue" ->
            IF cur # 0 /\ Matches(r.old, cur) THEN wrote ELSE failed
      [] r.op = "CreateOrUpdateValue" ->
            IF cur = 0 \/ Matches(r.old, cur) THEN wrote ELSE failed
      [] r.op = "DeleteValue" ->
            IF cur # 0 /\ Matches(r.old, cur)
            THEN res.ok /\ after = Absent
            ELSE ~res.ok /\ after = before

RegisterOps == Writes \cup {"GetValue", "DeleteValue"}

\* C5 (per-key linearizability): every GetValue, CreateValue, UpdateValue,
\* CreateOrUpdateValue and DeleteValue call takes effect in one step between
\* its invocation and its return, in which its result and the key's new
\* content are those of that operation on a sequential versioned register
\* holding the key's content, and no other step changes the content of a key.
C5_Linearizable ==
    [][/\ \A p \in Procs :
             (TakesEffect(p) /\ proc[p].op \in RegisterOps)
                 => RegisterStep(proc[p], proc'[p].res, Abs(proc[p].key), Abs(proc[p].key)')
       /\ \A k \in Keys :
             Abs(k)' # Abs(k)
                 => \E p \in Procs : /\ TakesEffect(p) /\ proc[p].key = k
                                     /\ proc[p].op \in Writes \cup {"DeleteValue"}
      ]_vars

\* A GetValue overlapped a successful DeleteValue and returned none.
C5_Witness ==
    \E p \in Procs :
        /\ Returned(p) /\ proc[p].op = "GetValue" /\ proc[p].res.err = "nil"
        /\ proc[p].res.ver = 0
        /\ \E i \in (proc[p].start + 1) .. Len(log) : log[i].op = "DeleteValue"

\* ------------------------------------------------------------------ C6
Winners(k, ver) ==
    {i \in 1 .. Len(log) : /\ log[i].op \in {"UpdateValue", "DeleteValue"}
                           /\ log[i].key = k /\ log[i].old = ver}

\* C6: for a key and a non-none version V, at most one of the calls
\* UpdateValue(k, ., V) and DeleteValue(k, V) ever succeeds, and a call given V
\* that has returned a version or true is that one.
C6_AtMostOneWinner ==
    /\ \A k \in Keys, ver \in 1 .. MaxVersion : Cardinality(Winners(k, ver)) <= 1
    /\ \A p \in Procs :
          (/\ Returned(p) /\ proc[p].op \in {"UpdateValue", "DeleteValue"}
           /\ proc[p].old # 0 /\ (proc[p].res.ver # 0 \/ proc[p].res.ok))
              => Winners(proc[p].key, proc[p].old) # {}

\* An UpdateValue and a DeleteValue were given the same version: one won, the
\* other returned none/false.
C6_Witness ==
    \E p, q \in Procs :
        /\ Returned(p) /\ proc[p].op = "UpdateValue" /\ proc[p].old # 0
        /\ proc[p].res.err = "nil" /\ proc[p].res.ver # 0
        /\ Returned(q) /\ proc[q].op = "DeleteValue" /\ proc[q].old = proc[p].old
        /\ proc[q].key = proc[p].key
        /\ proc[q].res.err = "nil" /\ ~proc[q].res.ok

\* ------------------------------------------------------------------ C7
LastMutation(k) == log[Max({i \in 1 .. Len(log) : log[i].key = k})]
Mutated(k) == \E i \in 1 .. Len(log) : log[i].key = k

\* Between two successful CreateValue calls on a key lies a successful delete.
CreatesSeparated ==
    \A i, j \in 1 .. Len(log) :
        (/\ i < j /\ log[i].key = log[j].key
         /\ log[i].op = "CreateValue" /\ log[j].op = "CreateValue")
            => ~NoDeleteBetween(i, j)

\* C7: a CreateValue(k, val) that takes effect returns a non-none version V
\* exactly when k is Absent at that instant, and then k holds (val, V); when
\* k is Present it returns none and changes nothing.  A GetValue that takes
\* effect while the create is the last mutation of k returns (val, V), and two
\* creates of a key never both succeed without a successful delete between.
C7_CreateValue ==
    [][/\ \A p \in Procs :
             (TakesEffect(p) /\ proc[p].op = "CreateValue")
                 => /\ (proc'[p].res.ver # 0) <=> (AbsVer(proc[p].key) = 0)
                    /\ proc'[p].res.ver # 0
                          => Abs(proc[p].key)' = <<proc[p].val, proc'[p].res.ver>>
                    /\ proc'[p].res.ver = 0
                          => Abs(proc[p].key)' = Abs(proc[p].key)
       /\ \A p \in Procs :
             (/\ TakesEffect(p) /\ proc[p].op = "GetValue"
              /\ Mutated(proc[p].key)
              /\ LastMutation(proc[p].key).op = "CreateValue")
                 => /\ proc'[p].res.val = LastMutation(proc[p].key).val
                    /\ proc'[p].res.ver = LastMutation(proc[p].key).ver
       /\ CreatesSeparated'
      ]_vars

\* A CreateValue succeeded on an Absent slot that a waiter kept alive.
C7_Witness ==
    \E p, q \in Procs :
        /\ Returned(p) /\ proc[p].op = "CreateValue" /\ proc[p].res.ver # 0
        /\ Returned(q) /\ proc[q].op = "WaitForValue" /\ proc[q].res.via = "event"
        /\ proc[q].res.ver = proc[p].res.ver

\* ------------------------------------------------------------------ C8
\* C8: an UpdateValue(k, val, old) that takes effect returns a non-none
\* version V' exactly when k is Present at that instant and old is none or
\* k's current version; then k holds (val, V') and V' differs from the
\* previous version; otherwise it returns none and changes nothing.
C8_UpdateValue ==
    [][\A p \in Procs :
          (TakesEffect(p) /\ proc[p].op = "UpdateValue")
              => /\ (proc'[p].res.ver # 0)
                       <=> (/\ AbsVer(proc[p].key) # 0
                            /\ Matches(proc[p].old, AbsVer(proc[p].key)))
                 /\ proc'[p].res.ver # 0
                       => /\ Abs(proc[p].key)' = <<proc[p].val, proc'[p].res.ver>>
                          /\ proc'[p].res.ver # AbsVer(proc[p].key)
                 /\ proc'[p].res.ver = 0
                       => Abs(proc[p].key)' = Abs(proc[p].key)
      ]_vars

\* An UpdateValue on an Absent slot held by a waiter returned none.
C8_Witness ==
    \E p, q \in Procs :
        /\ Returned(p) /\ proc[p].op = "UpdateValue"
        /\ proc[p].res.err = "nil" /\ proc[p].res.ver = 0
        /\ Blocked(q) /\ values[proc[q].key] = proc[q].value
        /\ proc[q].key = proc[p].key /\ AbsVer(proc[q].key) = 0
        /\ log = << >>

\* ------------------------------------------------------------------ C9
\* C9: a CreateOrUpdateValue(k, val, old) that takes effect writes val and
\* returns a non-none version whenever k is Absent at that instant, whatever
\* old is; when k is Present it writes val under a version different from the
\* previous one if old is none or k's current version, and returns none
\* otherwise; after a success k holds (val, returned version).
C9_CreateOrUpdateValue ==
    [][\A p \in Procs :
          (TakesEffect(p) /\ proc[p].op = "CreateOrUpdateValue")
              => /\ AbsVer(proc[p].key) = 0 => proc'[p].res.ver # 0
                 /\ AbsVer(proc[p].key) # 0
                       => ((proc'[p].res.ver # 0)
                              <=> Matches(proc[p].old, AbsVer(proc[p].key)))
                 /\ proc'[p].res.ver # 0
                       => /\ Abs(proc[p].key)' = <<proc[p].val, proc'[p].res.ver>>
                          /\ proc'[p].res.ver # AbsVer(proc[p].key)
                 /\ proc'[p].res.ver = 0
                       => Abs(proc[p].key)' = Abs(proc[p].key)
      ]_vars

\* A CreateOrUpdateValue given an old-version succeeded on an Absent key.
C9_Witness ==
    \E p \in Procs : \E i \in 1 .. Len(log) :
        /\ Returned(p) /\ proc[p].op = "CreateOrUpdateValue" /\ proc[p].old # 0
        /\ proc[p].res.ver # 0
        /\ log[i].ver = proc[p].res.ver /\ log[i].key = proc[p].key
        /\ VerBefore(i, proc[p].key) = 0

\* ------------------------------------------------------------------ C10
\* C10: a DeleteValue(k, ver) that takes effect returns true exactly when k
\* is Present at that instant and ver is none or k's current version, and k
\* is Absent afterwards; otherwise it returns false and changes nothing.  A
\* GetValue that takes effect while the delete is the last mutation of k
\* returns ("", none).
C10_DeleteValue ==
    [][/\ \A p \in Procs :
             (TakesEffect(p) /\ proc[p].op = "DeleteValue")
                 => /\ proc'[p].res.ok
                          <=> (/\ AbsVer(proc[p].key) # 0
                               /\ Matches(proc[p].old, AbsVer(proc[p].key)))
                    /\ proc'[p].res.ok => Abs(proc[p].key)' = Absent
                    /\ ~proc'[p].res.ok => Abs(proc[p].key)' = Abs(proc[p].key)
       /\ \A p \in Procs :
             (/\ TakesEffect(p) /\ proc[p].op = "GetValue"
              /\ Mutated(proc[p].key)
              /\ LastMutation(proc[p].key).op = "DeleteValue")
                 => proc'[p].res.val = EmptyString /\ proc'[p].res.ver = 0
      ]_vars

\* A DeleteValue given a stale version returned false on a Present key.
C10_Witness ==
    \E p \in Procs :
        /\ Returned(p) /\ proc[p].op = "DeleteValue" /\ proc[p].res.err = "nil"
        /\ ~proc[p].res.ok /\ proc[p].old # 0
        /\ AbsVer(proc[p].key) \notin {0, proc[p].old}
        /\ Len(log) = 2

\* ------------------------------------------------------------------ C11
Mutators == Writes \cup {"DeleteValue"}

\* The step of p completes its call with success: a write returns a version,
\* a delete returns true.
Succeeds(p) ==
    /\ proc'[p].pc \in {"ret", "fire"}
    /\ proc'[p].res.err = "nil"
    /\ proc[p].op \in Writes => proc'[p].res.ver # 0
    /\ proc[p].op = "DeleteValue" => proc'[p].res.ok

\* The step of p completes its call with a precondition failure.
Fails(p) ==
    /\ InCall(p) /\ proc[p].op \in Mutators
    /\ proc'[p].pc = "ret"
    /\ proc'[p].res.err = "nil"
    /\ proc[p].op \in Writes => proc'[p].res.ver = 0
    /\ proc[p].op = "DeleteValue" => ~proc'[p].res.ok

\* Every map entry, the slot behind it with its value, version and watcher
\* set, every watcher, the history and every other goroutine stay as they are.
Frame(p) ==
    /\ values' = values
    /\ \A k \in Keys : values[k] # NoSlot => slots'[values[k]] = slots[values[k]]
    /\ wobj' = wobj
    /\ log' = log
    /\ \A q \in Procs \ {p} : proc'[q] = proc[q]
    /\ isClosed1' = isClosed1 /\ closure' = closure

\* C11 (precondition failures change nothing observable): a CreateValue,
\* UpdateValue or CreateOrUpdateValue call that returns no version and a
\* DeleteValue call that returns false leave the key's value, version and
\* attached watchers unchanged, install no slot and wake no blocked
\* WaitForValue; of such a call only the version counter may keep a trace.
\* Checked for every step of a mutating call except the one in which it
\* succeeds and the firing of the watchers that follows a success.
C11_FailureChangesNothing ==
    [][\A p \in Procs :
          /\ Fails(p) => ~Succeeds(p)
          /\ (/\ InCall(p) /\ proc[p].op \in Mutators
              /\ proc[p].pc # "fire"
              /\ proc'[p] # proc[p]
              /\ ~Succeeds(p)) => Frame(p)]_vars

\* A CreateValue has failed on a key that a blocked WaitForValue watches.
C11_Witness ==
    \E p, q \in Procs :
        /\ Returned(p) /\ proc[p].op = "CreateValue"
        /\ proc[p].res.err = "nil" /\ proc[p].res.ver = 0
        /\ Blocked(q) /\ proc[q].key = proc[p].key
        /\ proc[q].watcher \in slots[proc[q].value].watchers
        /\ version > 1

\* ------------------------------------------------------------------ C12
\* doWaitForValue reads, through value.Get(), that the key is Absent.
ReadsAbsent(p) ==
    /\ proc[p].pc = "get" /\ proc[p].op = "WaitForValue"
    /\ Get(slots[proc[p].value]).err = ErrNil
    /\ Get(slots[proc[p].value]).version = 0

\* C12 (WaitForValue decision table, Absent key with an old-version): a
\* WaitForValue(k, old) call with old given that finds k Absent returns
\* ("", nil version) with no error right away: it does not block.
C12_AbsentWithOldReturns ==
    [][\A p \in Procs :
          (ReadsAbsent(p) /\ proc[p].old # 0 /\ proc'[p] # proc[p])
             => /\ proc'[p].pc = "removeWatcher"
                /\ proc'[p].res = Via(ResValue(EmptyString, 0), "now")]_vars

\* ------------------------------------------------------------------ C13
\* doWaitForValue reads, through value.Get(), that the key is Present with a
\* version other than the old-version passed (nil included).
ReadsNewer(p) ==
    /\ proc[p].pc = "get" /\ proc[p].op = "WaitForValue"
    /\ Get(slots[proc[p].value]).err = ErrNil
    /\ Get(slots[proc[p].value]).version # 0
    /\ Get(slots[proc[p].value]).version # proc[p].old

\* The watcher sets of the map's slots are what they were, less watcher w.
WatchersLess(w) ==
    \A k \in Keys :
        /\ values'[k] # NoSlot =>
              /\ values'[k] = values[k]
              /\ slots'[values'[k]].watchers = slots[values[k]].watchers \ {w}
        /\ values'[k] = NoSlot =>
              \/ values[k] = NoSlot
              \/ slots[values[k]].watchers \subseteq {w}

\* C13 (WaitForValue decision table, Present key with another version): a
\* WaitForValue(k, old) call that finds k Present with a current version
\* other than old (old may be nil) returns the current (value, version)
\* right away, without blocking, and the call leaves k's value and version
\* alone and k's watcher set as it was before the call: no step of the call
\* changes any key's content, and its return takes its own watcher, and no
\* other, off the slot.
C13_PresentReturnsCurrent ==
    [][\A p \in Procs :
          /\ (ReadsNewer(p) /\ proc'[p] # proc[p])
                => /\ proc'[p].pc = "removeWatcher"
                   /\ proc'[p].res = Via(ResValue(slots[proc[p].value].v,
                                                  slots[proc[p].value].version), "now")
                   /\ values' = values /\ slots' = slots
          /\ (/\ proc[p].pc = "removeWatcher" /\ proc[p].res.via = "now"
              /\ proc'[p] # proc[p])
                => /\ proc'[p].pc = "ret" /\ proc'[p].res = proc[p].res
                   /\ WatchersLess(proc[p].watcher)
                   /\ \A s \in SlotIds : proc[p].watcher \notin slots'[s].watchers
          /\ (InCall(p) /\ proc[p].op = "WaitForValue" /\ proc'[p] # proc[p])
                => /\ \A k \in Keys : Abs(k)' = Abs(k)
                   /\ log' = log /\ version' = version]_vars

\* A WaitForValue with an old-version has returned the newer pair right away
\* and the key still holds that pair.
C13_Witness ==
    \E p \in Procs :
        /\ Returned(p) /\ proc[p].op = "WaitForValue"
        /\ proc[p].res.via = "now" /\ proc[p].res.err = "nil"
        /\ proc[p].old # 0 /\ proc[p].res.ver # proc[p].old
        /\ Abs(proc[p].key) = <<proc[p].res.val, proc[p].res.ver>>

\* ------------------------------------------------------------------ C14
\* p waits with the old-version V1 that the key held when the call started,
\* and the first mutation since is a DeleteValue of the key at V1.
DeletedSinceStart(p) ==
    LET i == proc[p].start + 1 IN
    /\ proc[p].op = "WaitForValue" /\ proc[p].old # 0
    /\ proc[p].pc # "idle"
    /\ Len(log) >= i
    /\ log[i].op = "DeleteValue" /\ log[i].key = proc[p].key
    /\ VerBefore(i, proc[p].key) = proc[p].old

\* ... and the next mutation is a CreateOrUpdateValue of the key with no
\* old-version, the last mutation so far.
RecreatedSinceStart(p) ==
    LET j == proc[p].start + 2 IN
    /\ DeletedSinceStart(p)
    /\ Len(log) = j
    /\ log[j].op = "CreateOrUpdateValue" /\ log[j].key = proc[p].key
    /\ log[j].old = 0

Quiescent == isClosed1 = 0 /\ \A p \in Procs : ~InCall(p)

\* C15 (slot garbage collection): in every quiescent state of an open storage
\* the map holds no slot with version 0 and an empty watcher set; in
\* particular a key that is Absent then, be it after a WaitForValue on a
\* missing key ended by cancellation or after a DeleteValue of a value nobody
\* waits on, has no map entry.
C15_NoGarbageSlot ==
    Quiescent =>
        \A k \in Keys :
            /\ values[k] # NoSlot
                  => ~(slots[values[k]].version = 0 /\ slots[values[k]].watchers = {})
            /\ AbsVer(k) = 0 => values[k] = NoSlot

\* Quiescent, after a DeleteValue that succeeded and a WaitForValue that was
\* cancelled while the key was Absent: the key has no map entry.
C15_Witness ==
    \E p, q \in Procs :
        /\ Quiescent
        /\ Returned(p) /\ proc[p].op = "WaitForValue" /\ proc[p].res.via = "ctx"
        /\ Returned(q) /\ proc[q].op = "DeleteValue" /\ proc[q].res.ok
        /\ proc[p].start = Len(log)
        /\ values[proc[p].key] = NoSlot

\* ------------------------------------------------------------------ C16
\* The call of p was ended by its context and is about to run the deferred
\* RemoveWatcher.
Cancelled(p) ==
    /\ proc[p].pc = "removeWatcher" /\ proc[p].res.via = "ctx"

\* Once p's watcher is off the slot p holds, the slot is Absent and has no
\* watcher left.
LeavesAbsentEmpty(p) ==
    LET val == slots[proc[p].value] IN
    /\ ~val.isRemoved
    /\ val.version = 0
    /\ val.watchers = {proc[p].watcher}

\* C16 (cancellation): a blocked WaitForValue whose context is cancelled or
\* times out returns the context's error, and before it returns it detaches
\* its own watcher from the slot; if the slot is then Absent with no other
\* watchers, the slot is tombstoned and its map entry removed.
C16_Cancellation ==
    [][\A p \in Procs :
          /\ (Blocked(p) /\ proc'[p].pc = "removeWatcher")
                => /\ proc'[p].res = ResCtx
                   /\ proc'[p].watcher = proc[p].watcher
                   /\ proc'[p].value = proc[p].value
          /\ (Cancelled(p) /\ proc'[p] # proc[p])
                => /\ proc'[p].pc = "ret" /\ proc'[p].res = ResCtx
                   /\ \A s \in SlotIds : proc[p].watcher \notin slots'[s].watchers
                   /\ LeavesAbsentEmpty(p)
                         => /\ values'[proc[p].key] = NoSlot
                            /\ \A k \in Keys : values'[k] # proc[p].value
                            /\ \A q \in Procs \ {p} :
                                  proc'[q].value = proc[p].value
                                     => slots'[proc[p].value].isRemoved
                   /\ ~LeavesAbsentEmpty(p) => values' = values]_vars

\* A cancelled WaitForValue has returned the context's error and has taken
\* the slot it had installed out of the map again.
C16_Witness ==
    \E p \in Procs :
        /\ Returned(p) /\ proc[p].op = "WaitForValue"
        /\ proc[p].res.err = "ctx"
        /\ values[proc[p].key] = NoSlot
        /\ \A s \in SlotIds : slots[s].watchers = {}

\* ------------------------------------------------------------------ C17
\* C17 (Close unblocks waiters): every WaitForValue call in progress once
\* Close has taken effect, be it blocked already or past its closed check and
\* about to block, eventually returns, also when nobody cancels its context;
\* and a call that returns from the select of a closed storage while no write
\* has fired its watcher returns ErrStorageClosed.
C17_CloseUnblocksWaiters ==
    /\ \A p \in Procs :
          (proc[p].op = "WaitForValue" /\ InCall(p) /\ isClosed) ~> Returned(p)
    /\ [][\A p \in Procs :
             (/\ Blocked(p) /\ isClosed
              /\ ~wobj[proc[p].watcher].fired
              /\ Returned(p)')
                => /\ closure
                   /\ proc'[p].res = Via(ResClosed, "closure")]_vars

\* A WaitForValue has returned ErrStorageClosed from its select next to the
\* Close call that returned nil.
C17_Witness ==
    \E p, q \in Procs :
        /\ Returned(p) /\ proc[p].op = "WaitForValue"
        /\ proc[p].res.via = "closure" /\ proc[p].res.err = "ErrStorageClosed"
        /\ Returned(q) /\ proc[q].op = "Close" /\ proc[q].res.err = "nil"

\* ------------------------------------------------------------------ C18
\* A Close call has returned nil: Close returns right after close(ms.closure).
CloseReturned == closure

\* p invokes a call other than Close.
Invokes(p) ==
    /\ ~InCall(p)
    /\ proc'[p] # proc[p]
    /\ proc'[p].op # "Close"

\* C18 (post-close behaviour): after a Close call has returned successfully,
\* every GetValue, WaitForValue, CreateValue, UpdateValue, CreateOrUpdateValue
\* and DeleteValue call invoked afterwards returns ErrStorageClosed with zero
\* results, and changes neither the slot map nor the version counter (nor any
\* slot or watcher).
C18_ClosedRejectsCalls ==
    [][\A p \in Procs :
          (CloseReturned /\ Invokes(p))
             => /\ proc'[p].op \in Ops \ {"Close"}
                /\ Returned(p)'
                /\ proc'[p].res = ResClosed
                /\ values' = values /\ version' = version
                /\ slots' = slots /\ wobj' = wobj /\ log' = log]_vars

\* After Close has returned, a write has been rejected with ErrStorageClosed
\* and no results, and the map is as empty as before.
C18_Witness ==
    \E p \in Procs :
        /\ CloseReturned
        /\ Returned(p) /\ proc[p].op \in Writes
        /\ proc[p].res = ResClosed
        /\ calls = 2 /\ version = 0
        /\ \A k \in Keys : values[k] = NoSlot

\* ------------------------------------------------------------------ C19
\* p invokes Close.
InvokesClose(p) ==
    /\ ~InCall(p)
    /\ proc'[p] # proc[p]
    /\ proc'[p].op = "Close"

\* C19 (idempotent Close): among any number of Close calls on one storage,
\* sequential or concurrent, exactly one returns nil, the first to take
\* effect, and every other returns ErrStorageClosed; the close signal is
\* broadcast exactly once.  The first Close to swap isClosed1 goes on to close
\* the channel and returns nil; isClosed1 never goes back, so every later
\* Close returns ErrStorageClosed at its swap; the channel is closed only by
\* the winner, only while it is open, and stays closed.
C19_CloseOnce ==
    [][/\ isClosed1 # 0 => isClosed1' # 0
       /\ closure => closure'
       /\ (closure' /\ ~closure)
             => \E p \in Procs : proc[p].pc = "closeChan" /\ proc'[p] # proc[p]
       /\ \A p \in Procs :
             /\ InvokesClose(p)
                   => /\ isClosed1' = 1
                      /\ IF isClosed1 = 0
                         THEN proc'[p].pc = "closeChan"
                         ELSE Returned(p)' /\ proc'[p].res = ResClosed
             /\ proc[p].pc = "closeChan"
                   => /\ proc[p].op = "Close"
                      /\ ~closure /\ isClosed1 = 1
                      /\ \A q \in Procs \ {p} : proc[q].pc # "closeChan"
             /\ (proc[p].pc = "closeChan" /\ proc'[p] # proc[p])
                   => /\ closure'
                      /\ Returned(p)' /\ proc'[p].res = ResOK(TRUE)
             /\ (Returned(p)' /\ proc'[p].op = "Close" /\ proc'[p] # proc[p]
                 /\ proc'[p].res.err = "nil")
                   => proc[p].pc = "closeChan"]_vars

\* Two Close calls have returned: one nil, the other ErrStorageClosed.
C19_Witness ==
    \E p, q \in Procs :
        /\ Returned(p) /\ proc[p].op = "Close" /\ proc[p].res = ResOK(TRUE)
        /\ Returned(q) /\ proc[q].op = "Close" /\ proc[q].res = ResClosed
        /\ closure

\* ------------------------------------------------------------------ C20
\* The successful writes of the history.
WriteIndices == {i \in 1 .. Len(log) : log[i].op \in Writes}

\* C20 (version uniqueness): every version returned by a successful
\* CreateValue, UpdateValue or CreateOrUpdateValue on one storage is non-zero
\* and differs from the version returned by every other successful write on
\* that storage, whatever the keys and the interleaving, versions
\* pre-allocated before the slot operation and versions allocated in retried
\* attempts included; and no version is handed out beyond the counter.
C20_VersionsUnique ==
    /\ \A i \in WriteIndices :
          /\ log[i].ver # 0 /\ log[i].ver <= version
          /\ \A j \in WriteIndices : j # i => log[j].ver # log[i].ver
    /\ \A p \in Procs :
          (/\ Returned(p) /\ proc[p].op \in Writes
           /\ proc[p].res.err = "nil" /\ proc[p].res.ver # 0)
             => /\ \E i \in WriteIndices :
                      /\ i > proc[p].start
                      /\ log[i] = Mutation(proc[p], proc[p].res.ver)
                /\ \A q \in Procs \ {p} :
                      (Returned(q) /\ proc[q].op \in Writes /\ proc[q].res.err = "nil")
                         => proc[q].res.ver # proc[p].res.ver

\* Two writes to different keys have returned their versions, and a version
\* that a failed or retried attempt had allocated was dropped.
C20_Witness ==
    \E p, q \in Procs :
        /\ Returned(p) /\ proc[p].op \in Writes /\ proc[p].res.ver # 0
        /\ Returned(q) /\ proc[q].op \in Writes /\ proc[q].res.ver # 0
        /\ proc[p].key # proc[q].key
        /\ version > Cardinality(WriteIndices)

\* ------------------------------------------------------------------ C21
\* p holds the version its successful write returned.
ReturnedWrite(p) ==
    /\ Returned(p) /\ proc[p].op \in Writes
    /\ proc[p].res.err = "nil" /\ proc[p].res.ver # 0

C22_OneShot ==
    [][/\ \A p \in Procs : proc'[p].pc # "panic"
       /\ \A p \in Procs :
             (proc[p].pc = "fire" /\ proc'[p] # proc[p])
                => \E w \in proc[p].pending :
                      /\ ~wobj[w].fired
                      /\ \A q \in Procs \ {p} : w \notin proc[q].pending
                      /\ \A q \in Procs : proc[q].watcher = w => wobj'[w].fired
                      /\ IF proc[p].pending = {w}
                         THEN Returned(p)'
                         ELSE proc'[p].pending = proc[p].pending \ {w}
       /\ \A w \in WatcherIds :
             wobj'[w].fired
                => /\ \A p \in Procs : w \notin proc'[p].pending
                   /\ \A s \in SlotIds : w \notin slots'[s].watchers
       /\ \A p \in Procs :
             /\ (proc[p].watcher # NoWatcher /\ proc'[p].watcher = proc[p].watcher
                 /\ wobj[proc[p].watcher].fired)
                   => wobj'[proc[p].watcher].fired
             /\ (Blocked(p) /\ Returned(p)')
                   => \/ /\ wobj[proc[p].watcher].fired
                         /\ proc'[p].res = Via(ResValue(wobj[proc[p].watcher].eventArgs.Value,
                                                        wobj[proc[p].watcher].eventArgs.Version),
                                               "event")
                      \/ closure /\ proc'[p].res = Via(ResClosed, "closure")
             /\ (Returned(p) /\ calls' = calls) => proc'[p] = proc[p]]_vars

\* A waiter has returned through its event, fired by the first of two writes
\* that followed its invocation.
C22_Witness ==
    \E p \in Procs :
        /\ Returned(p) /\ proc[p].op = "WaitForValue"
        /\ proc[p].res.via = "event"
        /\ Len(log) >= proc[p].start + 2
        /\ log[proc[p].start + 1].op \in Writes
        /\ log[proc[p].start + 2].op \in Writes
        /\ proc[p].res.ver = log[proc[p].start + 1].ver

\* ------------------------------------------------------------------ C23
\* p is about to call a method of a Value that has been removed; the method
\* returns ErrValueRemoved.
MeetsRemoved(p) ==
    /\ proc[p].pc \in {"get", "addWatcher", "checkAndSet", "clear"}
    /\ slots[proc[p].value].isRemoved

\* C23 (ErrValueRemoved stays inside): no GetValue, WaitForValue,
\* CreateValue, UpdateValue, CreateOrUpdateValue or DeleteValue call ever
\* returns ErrValueRemoved; every occurrence makes the call retry from the
\* closed check, from where it goes, unless the storage is closed, to the
\* first step of its operation, which reads the current map entry.  A call
\* retries for no other reason.
C23_ValueRemovedStaysInside ==
    [][\A p \in Procs :
          /\ proc'[p].res.err # ErrValueRemoved
          /\ (MeetsRemoved(p) /\ proc'[p] # proc[p])
                => /\ proc'[p].pc = "check"
                   /\ proc'[p].value = NoSlot
                   /\ proc'[p].res = proc[p].res
                   /\ proc'[p].op = proc[p].op /\ proc'[p].key = proc[p].key
                   /\ proc'[p].old = proc[p].old /\ proc'[p].val = proc[p].val
          /\ (proc[p].pc # "check" /\ proc'[p].pc = "check") => MeetsRemoved(p)
          /\ (proc[p].pc = "check" /\ proc'[p] # proc[p])
                => /\ proc'[p].value = NoSlot
                   /\ IF isClosed
                      THEN Returned(p)' /\ proc'[p].res = ResClosed
                      ELSE proc'[p].pc = FirstPc(proc[p].op)]_vars

\* A DeleteValue found the Value it had loaded removed and is about to start
\* over, while the key has no map entry or a new one.
C23_Witness ==
    \E p \in Procs :
        /\ proc[p].pc = "check" /\ proc[p].op = "DeleteValue"
        /\ proc[p].res = NoRes
        /\ proc[p].value = NoSlot

\* ------------------------------------------------------------------ C24
\* C24 (a tombstoned slot is never a map entry): in every reachable state no
\* Value whose isRemoved flag is set is the map entry of any key; the step
\* that sets the flag of a Value takes it out of the map, where it was, and
\* the flag of a Value that somebody still holds is never cleared again.
C24_TombstonedNotInMap ==
    [][/\ \A k \in Keys :
             values'[k] # NoSlot => ~slots'[values'[k]].isRemoved
       /\ \A s \in SlotIds :
             /\ (~slots[s].isRemoved /\ slots'[s].isRemoved)
                   => /\ \E k \in Keys : values[k] = s
                      /\ \A k \in Keys : values'[k] # s
             /\ (slots[s].isRemoved /\ \E p \in Procs : proc'[p].value = s)
                   => slots'[s].isRemoved]_vars

\* A goroutine holds a removed Value while the key it loaded it for has no
\* map entry or another one.
C24_Witness ==
    \E p \in Procs :
        /\ proc[p].value # NoSlot
        /\ slots[proc[p].value].isRemoved
        /\ values[proc[p].key] # proc[p].value

\* ------------------------------------------------------------------ C25
NonBlocking == {"GetValue", "CreateValue", "UpdateValue", "CreateOrUpdateValue",
                "DeleteValue"}

StepOf(p, ops) == proc'[p] # proc[p] /\ proc'[p].op \in ops

\* Value s is what it was, or it was a removed Value that nobody holds any
\* more.
SameOrDropped(s) ==
    \/ slots'[s] = slots[s]
    \/ /\ slots[s].isRemoved
       /\ \A p \in Procs : proc'[p].value # s
       /\ \A k \in Keys : values[k] # s /\ values'[k] # s

\* C26 (GetValue, UpdateValue and DeleteValue never install a slot): no step
\* of such a call gives a key a map entry that had none, and a call that
\* finds no entry for its key returns at once (no value, no version, false);
\* no step of GetValue changes the map, any Value's content, version,
\* watcher set or isRemoved flag, or any watcher.
C26_NoInstall ==
    [][\A p \in Procs :
          /\ StepOf(p, {"GetValue", "UpdateValue", "DeleteValue"})
                => /\ \A k \in Keys : values[k] = NoSlot => values'[k] = NoSlot
                   /\ (proc[p].pc = "load" /\ values[proc[p].key] = NoSlot)
                         => /\ Returned(p)'
                            /\ proc'[p].res.err = "nil"
                            /\ proc'[p].res.ver = 0 /\ ~proc'[p].res.ok
                            /\ proc'[p].res.val = EmptyString
          /\ StepOf(p, {"GetValue"})
                => /\ values' = values /\ wobj' = wobj
                   /\ version' = version /\ log' = log
                   /\ \A s \in SlotIds : SameOrDropped(s)]_vars

\* A GetValue and an UpdateValue or DeleteValue have found no entry for their
\* key, and there is none.
C26_Witness ==
    \E p, q \in Procs :
        /\ Returned(p) /\ proc[p].op = "GetValue"
        /\ proc[p].res = ResValue(EmptyString, 0)
        /\ Returned(q) /\ proc[q].op \in {"UpdateValue", "DeleteValue"}
        /\ proc[q].res.err = "nil" /\ proc[q].res.ver = 0 /\ ~proc[q].res.ok
        /\ \A k \in Keys : values[k] = NoSlot
        /\ log = << >>

\* ------------------------------------------------------------------ C27
\* C27 (WaitForValue with an old-version installs no slot): a
\* WaitForValue(k, old) call with old given, on a key k that has no entry in
\* the map, does not install a slot for k: no step of the call gives k a map
\* entry.
C27_WaitWithOldInstallsNothing ==
    [][\A p \in Procs :
          (StepOf(p, {"WaitForValue"}) /\ proc'[p].old # 0)
             => \A k \in Keys : values[k] = NoSlot => values'[k] = NoSlot]_vars

\* ------------------------------------------------------------------ C28
\* The callbacks that the write calls hand to CheckAndSet, for Value val.
Callbacks(val) ==
    {Callback(val.version, [proc[p] EXCEPT !.op = op], version + 1) :
        p \in Procs, op \in Writes}

\* Each method of Value, applied to val, returns ErrValueRemoved and leaves
\* val as it is: no watcher added, no value written, the callback's result
\* not applied, the remover not invoked.
Terminal(val) ==
    /\ Get(val) = [v |-> EmptyString, version |-> 0, err |-> ErrValueRemoved]
    /\ \A w \in WatcherIds :
          /\ AddWatcher(val, w) = [value |-> val, err |-> ErrValueRemoved]
          /\ RemoveWatcher(val, w) =
                [value |-> val, removed |-> FALSE, err |-> ErrValueRemoved]
    /\ \A cb \in Callbacks(val) :
          CheckAndSet(val, cb) =
             [value |-> val, ok |-> FALSE, fired |-> {}, err |-> ErrValueRemoved]
    /\ \A ver \in 0 .. MaxVersion :
          Clear(val, ver) =
             [value |-> val, ok |-> FALSE, removed |-> FALSE, err |-> ErrValueRemoved]

\* p is about to call a method of the removed Value it holds.
CallsRemoved(p) ==
    /\ proc[p].pc \in {"get", "addWatcher", "removeWatcher", "checkAndSet", "clear"}
    /\ slots[proc[p].value].isRemoved

\* C28 (tombstoned is terminal): on a Value whose isRemoved flag is set, each
\* of Get, AddWatcher, RemoveWatcher, CheckAndSet and Clear returns
\* ErrValueRemoved and leaves the Value unchanged; a call's step that runs
\* such a method changes neither the map, the counter, the history nor any
\* Value, and no step resets the flag of a Value that is still held.
C28_TombstonedIsTerminal ==
    [][/\ \A s \in SlotIds : slots[s].isRemoved => Terminal(slots[s])
       /\ \A p \in Procs :
             (CallsRemoved(p) /\ proc'[p] # proc[p])
                => /\ values' = values /\ version' = version /\ log' = log
                   /\ \A s \in SlotIds : SameOrDropped(s)
                   /\ proc'[p].pc \in {"check", "ret"}
                   /\ proc'[p].res = proc[p].res
       /\ \A s \in SlotIds :
             slots[s].isRemoved
                => \/ slots'[s].isRemoved /\ slots'[s] = slots[s]
                   \/ \A p \in Procs : proc'[p].value # s]_vars

\* A WaitForValue has called AddWatcher on the Value that a DeleteValue had
\* removed meanwhile and starts over without a watcher.
C28_Witness ==
    \E p \in Procs :
        /\ proc[p].pc = "check" /\ proc[p].op = "WaitForValue"
        /\ proc[p].watcher = NoWatcher /\ proc[p].value = NoSlot
        /\ \A s \in SlotIds : slots[s].watchers = {}

\* ------------------------------------------------------------------ C29
\* The step of p is a CheckAndSet that applies a write.
AppliesWrite(p) ==
    proc[p].pc = "checkAndSet" /\ proc'[p] # proc[p] /\ log' # log

\* C29 (detach, release, then fire): a CheckAndSet that applies a write
\* detaches the whole watcher set while it holds Value.mu, releases it and
\* only then fires the watchers it detached, with the new (value, version):
\* the step under the lock fires no watcher and leaves the Value with the
\* pair written and an empty watcher set; every watcher is fired by a writer
\* that holds no lock, was detached by that writer's write and receives that
\* write's pair; a watcher attached to a Value, as one added after the write
\* is, is in no writer's hands.
C29_DetachThenFire ==
    [][/\ \A p \in Procs :
             AppliesWrite(p)
                => LET s == proc[p].value
                       m == log'[Len(log')] IN
                   /\ slots'[s].watchers = {}
                   /\ slots'[s].v = m.val /\ slots'[s].version = m.ver
                   /\ \A w \in WatcherIds : wobj'[w] = wobj[w]
                   /\ IF slots[s].watchers = {}
                      THEN Returned(p)'
                      ELSE /\ proc'[p].pc = "fire"
                           /\ proc'[p].value = NoSlot
                           /\ proc'[p].pending = slots[s].watchers
                           /\ proc'[p].fireArgs = [Value |-> m.val, Version |-> m.ver]
       /\ \A w \in WatcherIds :
             (~wobj[w].fired /\ wobj'[w].fired)
                => \E p \in Procs :
                      /\ proc[p].pc = "fire" /\ proc[p].value = NoSlot
                      /\ w \in proc[p].pending
                      /\ wobj'[w].eventArgs = proc[p].fireArgs
       /\ \A p \in Procs :
             /\ proc'[p].pc = "fire"
                   => \A s \in SlotIds : proc'[p].pending \cap slots'[s].watchers = {}
             /\ (proc[p].pc = "fire" /\ proc'[p].pc = "fire")
                   => /\ proc'[p].pending \subseteq proc[p].pending
                      /\ proc'[p].fireArgs = proc[p].fireArgs]_vars

\* A writer has written and released the Value, which has no watcher left,
\* and has yet to fire the watcher of a blocked waiter.
C29_Witness ==
    \E p, q \in Procs :
        /\ proc[p].pc = "fire" /\ proc[p].pending = {proc[q].watcher}
        /\ Blocked(q) /\ ~wobj[proc[q].watcher].fired
        /\ values[proc[p].key] # NoSlot
        /\ slots[values[proc[p].key]].watchers = {}
        /\ slots[values[proc[p].key]].version = proc[p].fireArgs.Version

\* ------------------------------------------------------------------ C30
\* The gc hook of p's call, func() { ms.values.Delete(key) }, has run in the
\* step: the key of the call lost its map entry, which was the Value that p
\* holds, and no other key lost or got one.
HookInvoked(p) ==
    /\ values[proc[p].key] = proc[p].value
    /\ values' = [values EXCEPT ![proc[p].key] = NoSlot]

\* The Value that p holds is, or was until it was dropped, tombstoned by the
\* step.
Tombstones(p) ==
    /\ ~slots[proc[p].value].isRemoved
    /\ \/ slots'[proc[p].value].isRemoved
       \/ /\ slots'[proc[p].value] = ZeroValue
          /\ \A q \in Procs : proc'[q].value # proc[p].value
          /\ \A k \in Keys : values'[k] # proc[p].value

\* C30 (a slot is tombstoned only when it is left Absent without watchers):
\* a Value is tombstoned only by a Clear or a RemoveWatcher that leaves it
\* Absent with an empty watcher set, and that operation invokes the gc hook
\* once, in the same step under Value.mu; Clear of a Value with a watcher
\* attached, and RemoveWatcher of a Value that is Present or keeps other
\* watchers, neither tombstone nor invoke the hook; no other step takes an
\* entry out of the map or sets a flag, and no Value that is Present or has a
\* watcher attached is ever tombstoned.
C30_TombstonedOnlyWhenEmpty ==
    [][/\ \A s \in SlotIds :
             slots'[s].isRemoved
                => slots'[s].version = 0 /\ slots'[s].watchers = {}
       /\ \A p \in Procs :
             /\ (proc[p].pc = "removeWatcher" /\ proc'[p] # proc[p])
                   => LET val == slots[proc[p].value] IN
                      IF /\ ~val.isRemoved /\ val.version = 0
                         /\ val.watchers = {proc[p].watcher}
                      THEN HookInvoked(p) /\ Tombstones(p)
                      ELSE values' = values /\ ~Tombstones(p)
             /\ (proc[p].pc = "clear" /\ proc'[p] # proc[p])
                   => LET val == slots[proc[p].value] IN
                      IF /\ ~val.isRemoved /\ val.version # 0
                         /\ proc[p].old \in {0, val.version}
                         /\ val.watchers = {}
                      THEN HookInvoked(p) /\ Tombstones(p)
                      ELSE values' = values /\ ~Tombstones(p)
             /\ (proc[p].pc \notin {"removeWatcher", "clear"} /\ proc'[p] # proc[p])
                   => /\ \A k \in Keys : values[k] # NoSlot => values'[k] = values[k]
                      /\ \A s \in SlotIds : ~slots[s].isRemoved => ~slots'[s].isRemoved]_vars

\* A DeleteValue has cleared a Value that a blocked waiter watches, which
\* stays in the map, Absent and not tombstoned.
C30_Witness ==
    \E p, q \in Procs :
        /\ Returned(p) /\ proc[p].op = "DeleteValue" /\ proc[p].res.ok
        /\ Blocked(q)
        /\ values[proc[q].key] = proc[q].value
        /\ slots[proc[q].value].version = 0
        /\ slots[proc[q].value].watchers = {proc[q].watcher}
        /\ ~slots[proc[q].value].isRemoved
        /\ log[Len(log)].op = "DeleteValue"

\* ------------------------------------------------------------------ C31
\* RemoveWatcher(val, w) did nothing: no error, the Value as it was, the
\* remover not invoked.
NoOp(val, w) ==
    RemoveWatcher(val, w) = [value |-> val, removed |-> FALSE, err |-> ErrNil]

\* C31 (RemoveWatcher is idempotent): on a Value that is not tombstoned,
\* RemoveWatcher of a watcher that is not attached (fired and detached by a
\* write, or removed before) returns no error, leaves value, version and the
\* other watchers as they are, does not tombstone and does not invoke the gc
\* hook; so does a second RemoveWatcher after a first that left the Value in
\* the map.  A doWaitForValue whose deferred RemoveWatcher meets its watcher
\* detached returns the result it had, with the map and the Value unchanged.
C31_RemoveWatcherIdempotent ==
    [][/\ \A s \in SlotIds, w \in WatcherIds :
             ~slots[s].isRemoved
                => /\ w \notin slots[s].watchers => NoOp(slots[s], w)
                   /\ LET once == RemoveWatcher(slots[s], w) IN
                      ~once.removed => NoOp(once.value, w)
       /\ \A p \in Procs :
             (/\ proc[p].pc = "removeWatcher" /\ proc'[p] # proc[p]
              /\ ~slots[proc[p].value].isRemoved
              /\ proc[p].watcher \notin slots[proc[p].value].watchers)
                => /\ values' = values
                   /\ SameOrDropped(proc[p].value)
                   /\ Returned(p)' /\ proc'[p].res = proc[p].res]_vars

\* A waiter has returned through its deferred RemoveWatcher while the write
\* that detached its watcher still holds that watcher, about to fire it.
C31_Witness ==
    \E p, q \in Procs :
        /\ p # q
        /\ Returned(p) /\ proc[p].op = "WaitForValue"
        /\ proc[p].res.via \in {"now", "ctx"}
        /\ proc[q].pc = "fire" /\ proc[q].pending # {}
        /\ values[proc[p].key] # NoSlot
        /\ slots[values[proc[p].key]].watchers = {}

\* ------------------------------------------------------------------ C32
\* p's step is a Clear that succeeds on a Present Value with a watcher
\* attached.
ClearsWatched(p) ==
    /\ proc[p].pc = "clear" /\ proc'[p] # proc[p]
    /\ ~slots[proc[p].value].isRemoved
    /\ slots[proc[p].value].version # 0
    /\ proc[p].old \in {0, slots[proc[p].value].version}
    /\ slots[proc[p].value].watchers # {}

C33_ClearRemovesWatched ==
    [][\A p \in Procs :
          ClearsWatched(p)
             => /\ Returned(p)' /\ proc'[p].res = ResOK(TRUE)
                /\ HookInvoked(p)
                /\ Tombstones(p)
                /\ \A w \in slots[proc[p].value].watchers :
                      /\ wobj'[w].fired
                      /\ wobj'[w].eventArgs = [Value |-> EmptyString, Version |-> 0]
      ]_vars

\* ------------------------------------------------------------------ C34
\* p's step returns from a doWaitForValue that had attached a watcher, by the
\* return statement `how`.
ExitsBy(p, how) ==
    /\ proc[p].op = "WaitForValue" /\ InCall(p) /\ Returned(p)'
    /\ proc[p].watcher # NoWatcher
    /\ proc'[p].res.via = how

\* p's watcher is attached to no Value after the step.
Detached(p) == \A s \in SlotIds : proc[p].watcher \notin slots'[s].watchers

\* C34 (every exit that is not the watcher firing removes the watcher): a
\* WaitForValue that returns at once, on the close signal or on its context,
\* has called RemoveWatcher, and its watcher is attached to no Value once it
\* has returned.
C34_EveryExitDetaches ==
    [][\A p \in Procs :
          (ExitsBy(p, "now") \/ ExitsBy(p, "closure") \/ ExitsBy(p, "ctx"))
             => proc[p].pc = "removeWatcher" /\ Detached(p)]_vars

\* C34 as the code has it: the exits that return at once or on the context
\* run the deferred RemoveWatcher and leave the watcher attached to no Value;
\* the exit on the close signal, taken only once Close has closed the
\* channel, resets `watcher` like the exit on the event, skips RemoveWatcher
\* and leaves the Value and the watchers attached to it as they were.
C34_ExitsDetachButClosure ==
    [][\A p \in Procs :
          /\ (ExitsBy(p, "now") \/ ExitsBy(p, "ctx"))
                => proc[p].pc = "removeWatcher" /\ Detached(p)
          /\ ExitsBy(p, "closure")
                => /\ closure /\ isClosed
                   /\ proc[p].pc = "select"
                   /\ SameOrDropped(proc[p].value)
                   /\ values' = values]_vars

\* A waiter has returned ErrStorageClosed from its select and its watcher is
\* still attached to the Value of its key: no WaitForValue is in progress.
C34_Witness ==
    \E p \in Procs :
        /\ Returned(p) /\ proc[p].op = "WaitForValue"
        /\ proc[p].res.via = "closure"
        /\ values[proc[p].key] # NoSlot
        /\ slots[values[proc[p].key]].watchers # {}
        /\ \A q \in Procs : ~(InCall(q) /\ proc[q].op = "WaitForValue")

\* ------------------------------------------------------------------ C35
\* C35 (Inspect never reports a tombstoned slot): every entry Inspect puts
\* into the Values it returns was read from a Value that was not tombstoned
\* when Get read it, whatever DeleteValue or a cancelled WaitForValue does
\* during the enumeration; an Inspect that finds the storage closed returns
\* IsClosed = true and no Values, and one that finds it open returns
\* IsClosed = false.
C35_InspectSkipsTombstoned ==
    [][\A p \in Procs :
          /\ (proc[p].pc = "inspectGet" /\ proc'[p] # proc[p])
                => \/ proc'[p].details = proc[p].details
                   \/ ~slots[proc[p].value].isRemoved
          /\ (proc'[p].op = "Inspect" /\ Returned(p)' /\ proc'[p] # proc[p])
                => IF proc[p].pc = "range"
                   THEN ~proc'[p].res.ok
                   ELSE isClosed /\ proc'[p].res.ok /\ proc'[p].details = {}
      ]_vars

\* ------------------------------------------------------------------ C36
\* C36 (the gc hook removes the right entry): a Value that a call holds for
\* its key and that is not tombstoned is the map entry of that key, so that a
\* key has at most one Value that is not tombstoned; a remover that runs
\* finds the map entry of its key to be its own Value and deletes that entry
\* and no other; every entry that leaves the map is taken out by the remover
\* of the Value it pointed to; and a write is applied only to the Value that
\* is the map entry of its key, before and after the write.
C36_HookRemovesOwnEntry ==
    [][/\ \A p \in Procs :
             /\ (proc[p].value # NoSlot /\ ~slots[proc[p].value].isRemoved)
                   => values[proc[p].key] = proc[p].value
             /\ (proc[p].pc \in {"removeWatcher", "clear"} /\ Tombstones(p))
                   => HookInvoked(p)
             /\ AppliesWrite(p)
                   => /\ values[proc[p].key] = proc[p].value
                      /\ values'[proc[p].key] = proc[p].value
       /\ \A k \in Keys :
             (values[k] # NoSlot /\ values'[k] # values[k])
                => \E p \in Procs :
                      /\ proc[p].pc \in {"removeWatcher", "clear"}
                      /\ proc[p].key = k /\ proc[p].value = values[k]
                      /\ proc'[p] # proc[p]
                      /\ values'[k] = NoSlot]_vars

\* A remover has run while another call had loaded the same Value: that call
\* holds the tombstoned Value, and the key has a new entry, installed since,
\* which is not tombstoned.
C36_Witness ==
    \E p \in Procs :
        /\ proc[p].value # NoSlot
        /\ slots[proc[p].value].isRemoved
        /\ values[proc[p].key] # NoSlot
        /\ values[proc[p].key] # proc[p].value
        /\ ~slots[values[proc[p].key]].isRemoved

\* ------------------------------------------------------------------ C37
\* The WaitForValue call of p is in progress and holds watcher w, attached to
\* the Value s.
Owns(p, s, w) ==
    /\ proc[p].op = "WaitForValue" /\ InCall(p)
    /\ proc[p].value = s /\ proc[p].watcher = w

\* C37 (no orphan watchers): while the storage has never been closed, every
\* watcher attached to a Value belongs to a WaitForValue call that has not
\* returned, one call per watcher; so whenever no WaitForValue is in
\* progress, no Value in the map has a watcher attached.
C37_NoOrphanWatchers ==
    isClosed1 = 0 =>
        /\ \A s \in SlotIds : \A w \in slots[s].watchers :
              /\ \E p \in Procs : Owns(p, s, w)
              /\ \A p, q \in Procs : (Owns(p, s, w) /\ Owns(q, s, w)) => p = q
        /\ (\A p \in Procs : ~(InCall(p) /\ proc[p].op = "WaitForValue"))
              => \A k \in Keys :
                    values[k] # NoSlot => slots[values[k]].watchers = {}

\* The storage is open, no WaitForValue is in progress, and the Value in the
\* map, which two WaitForValue calls have watched and left (one returned at
\* once, one was cancelled), has no watcher attached.
C37_Witness ==
    \E p, q \in Procs :
        /\ isClosed1 = 0
        /\ Returned(p) /\ proc[p].op = "WaitForValue" /\ proc[p].res.via = "now"
        /\ Returned(q) /\ proc[q].op = "WaitForValue" /\ proc[q].res.via = "ctx"
        /\ values[proc[p].key] # NoSlot
        /\ slots[values[proc[p].key]].version # 0
        /\ slots[values[proc[p].key]].watchers = {}

\* ------------------------------------------------------------------ C38
\* The version that p's next step hands to Value.set, or to NewValue, which
\* calls set; none (-1) if that step sets nothing.
VersionToSet(p) ==
    LET r == proc[p] IN
    IF r.pc = "loadOrStore" /\ r.op \in Writes /\ values[r.key] = NoSlot
    THEN r.version
    ELSE IF r.pc = "checkAndSet" /\ ~slots[r.value].isRemoved
              /\ Callback(slots[r.value].version, r, version + 1).ok
    THEN Callback(slots[r.value].version, r, version + 1).version
    ELSE -1

\* C38 (the zero-version assertion holds): Value.set is never called with
\* version 0, by NewValue in LoadOrStore or by CheckAndSet with what a
\* callback returns, so that its panic is unreachable; every Value with
\* version 0 has the empty value, hence every Value that holds a value has a
\* non-zero version.
C38_SetNeverZero ==
    /\ \A p \in Procs :
          /\ VersionToSet(p) # -1 => ~setPanics(VersionToSet(p))
          /\ proc[p].pc # "panic"
    /\ \A s \in SlotIds :
          /\ slots[s].version = 0 => slots[s].v = EmptyString
          /\ slots[s].v # EmptyString => slots[s].version # 0

\* A CreateValue has set, through CheckAndSet, the version it had allocated
\* beforehand on the Absent Value a waiter had installed, and is about to
\* fire that waiter.
C38_Witness ==
    \E p, q \in Procs :
        /\ proc[p].op = "CreateValue" /\ proc[p].pc = "fire"
        /\ proc[p].res.ver # 0
        /\ Blocked(q) /\ proc[q].watcher \in proc[p].pending
        /\ slots[proc[q].value].version = proc[p].res.ver
        /\ slots[proc[q].value].v = proc[p].val

\* ------------------------------------------------------------------ C39
\* The versions this storage had returned when the call of p was invoked are
\* among those of the writes that had taken effect by then.
KnownAtCall(p) == {log[i].ver : i \in {j \in 1 .. proc[p].start : log[j].op \in Writes}}

\* C39 (WaitForValue never returns the old version): a WaitForValue(k, old)
\* that returns without error, where old is none or a version this storage
\* had returned before the call, returns a version that is not none and is
\* not old, on the path that returns at once as on the path woken by the
\* watcher.
C39_NeverReturnsOld ==
    \A p \in Procs :
        (/\ proc[p].op = "WaitForValue"
         /\ proc[p].pc \in {"removeWatcher", "ret"}
         /\ proc[p].res.err = "nil"
         /\ proc[p].old \in {0} \cup KnownAtCall(p))
           => /\ proc[p].res.ver # 0
              /\ proc[p].res.ver # proc[p].old
              /\ proc[p].res.via \in {"now", "event"}

\* A WaitForValue given the version the key held has been woken by the next
\* write and has returned the version of that write.
C39_Witness ==
    \E p \in Procs :
        /\ Returned(p) /\ proc[p].op = "WaitForValue"
        /\ proc[p].res.err = "nil" /\ proc[p].res.via = "event"
        /\ proc[p].old # 0 /\ proc[p].old \in KnownAtCall(p)
        /\ proc[p].res.ver > proc[p].old

\* ------------------------------------------------------------------ C40
\* The step invokes a write of p.
Invoked(p) ==
    /\ ~InCall(p) /\ calls' = calls + 1
    /\ proc'[p] # proc[p] /\ proc'[p].op \in Writes

\* The step returns a successful write of p.
ReturnsWrite(p) == InCall(p) /\ ReturnedWrite(p)'

\* C40 (non-overlapping monotonicity): if a successful write W1 has returned
\* V1 before a successful write W2 is invoked, W2 returns V2 > V1.  A write
\* that has returned when a write is invoked, by another goroutine or as the
\* last call of the same goroutine, stands in the history before the point
\* at which that write starts, with the version it returned, which the counter
\* has reached; and a write that returns a version returns one greater than
\* every write that stands before its start.
C40_NonOverlappingIncrease ==
    [][\A p \in Procs :
          /\ Invoked(p)
                => \A q \in Procs :
                      ReturnedWrite(q)
                         => /\ proc[q].res.ver <= version
                            /\ \E i \in 1 .. proc'[p].start :
                                  log[i] = Mutation(proc[q], proc[q].res.ver)
          /\ ReturnsWrite(p)
                => \A i \in 1 .. proc[p].start :
                      log'[i].op \in Writes => proc'[p].res.ver > log'[i].ver]_vars

\* A goroutine's write has returned a version above the one returned by the
\* write of the other goroutine, which stands in the history before the
\* invocation.
C40_Witness ==
    \E p, q \in Procs :
        /\ p # q
        /\ ReturnedWrite(p) /\ ReturnedWrite(q)
        /\ \E i \in 1 .. proc[p].start : log[i] = Mutation(proc[q], proc[q].res.ver)
        /\ proc[p].res.ver > proc[q].res.ver
====
